---------------------------- MODULE Spec2Model ----------------------------
(***************************************************************************)
(* Diffusivity estimation and Arrhenius fitting of the Al-Mg MD study:     *)
(* scripts/analyze_msd.py, scripts/check_msd_quality.py,                   *)
(* scripts/analyze_interface_msd.py and scripts/fit_arrhenius.py.          *)
(*                                                                         *)
(* Numbers are exact.  A real number is a rational n / d with d > 0 in     *)
(* lowest terms; not-a-number is NaN and Python's None is None.  Lengths   *)
(* are in Angstrom^2 and times in sampling steps, so the unit conversions  *)
(* of the scripts (1e-20 m^2 per Angstrom^2, 1e-12 s per ps), which scale  *)
(* both regression axes by positive constants, are the unit of D here.     *)
(* A standard error, the square root of a rational, is carried as its      *)
(* square.  A logarithm is carried in units of ln 2.                       *)
(***************************************************************************)
EXTENDS Integers, Sequences, FiniteSets, TLC

(* Every value is a record with a kind, so that any two can be compared. *)
Num(n, d) == [k |-> "num", n |-> n, d |-> d]
NaN == [k |-> "nan", n |-> 0, d |-> 1]
None == [k |-> "none", n |-> 0, d |-> 1]

----------------------------------------------------------------------------
(* Exact rational arithmetic. *)

Abs(n) == IF n < 0 THEN -n ELSE n

RECURSIVE Gcd(_, _)
Gcd(a, b) == IF b = 0 THEN a ELSE Gcd(b, a % b)

Rat(n, d) ==
    LET g == Gcd(Abs(n), Abs(d))
        s == IF d < 0 THEN -1 ELSE 1
    IN  Num((s * n) \div g, (s * d) \div g)

IsNum(v) == v.k = "num"
Int2Rat(n) == Num(n, 1)
Zero == Num(0, 1)
One == Num(1, 1)
RAdd(a, b) ==
    LET g == Gcd(a.d, b.d)
    IN  Rat(a.n * (b.d \div g) + b.n * (a.d \div g), (a.d \div g) * b.d)
RSub(a, b) == RAdd(a, Num(-b.n, b.d))
RMul(a, b) ==
    LET g1 == Gcd(Abs(a.n), b.d)
        g2 == Gcd(Abs(b.n), a.d)
    IN  IF a.n = 0 \/ b.n = 0 THEN Zero
        ELSE Num((a.n \div g1) * (b.n \div g2), (a.d \div g2) * (b.d \div g1))
RInv(a) == Rat(a.d, a.n)
RDiv(a, b) == RMul(a, RInv(b))
RNeg(a) == Num(-a.n, a.d)
RLe(a, b) == a.n * b.d <= b.n * a.d
RLt(a, b) == a.n * b.d < b.n * a.d

(* Python's float arithmetic and comparisons: NaN propagates through      *)
(* arithmetic and every comparison with NaN is False.                      *)
FLe(a, b) == IsNum(a) /\ IsNum(b) /\ RLe(a, b)
FLt(a, b) == IsNum(a) /\ IsNum(b) /\ RLt(a, b)
FGt(a, b) == FLt(b, a)
FGeStrict(a, b) == FLt(b, a)     \* a threshold test that excludes the threshold
FGe(a, b) == FLe(b, a)
FAdd(a, b) == IF IsNum(a) /\ IsNum(b) THEN RAdd(a, b) ELSE NaN
FMul(a, b) == IF IsNum(a) /\ IsNum(b) THEN RMul(a, b) ELSE NaN
FDiv(a, b) == IF IsNum(a) /\ IsNum(b) THEN RDiv(a, b) ELSE NaN

----------------------------------------------------------------------------
(* Program constants (constants.py). *)

T_md == <<500, 600, 700>>
(* np.linspace(start, stop, num) for integers start < stop, num >= 2 *)
linspace(start, stop, num) ==
    [i \in 1..num |-> Rat(start * (num - 1) + (i - 1) * (stop - start), num - 1)]
T_dsa == linspace(300, 450, 16)
msd_r2_threshold == Rat(95, 100)
Mg_atomic_percent == Rat(552, 100)
R == Rat(8314, 1000)
Faraday == 96485
MinPoints == 10
MinPointsQuality == 5
SingleSpeciesCols == 5
EightCols == SingleSpeciesCols + 3     \* a two-species threshold one column short
TwoSpeciesCols == 9
MinFitRows == 3
Species == <<"Mg", "Al">>

----------------------------------------------------------------------------
(* Bounds of the model. *)

MaxLen == 12        \* an MSD file holds 0..MaxLen samples
MaxCols == 10       \* an MSD file holds 1..MaxCols columns
MaxRows == 4        \* a diffusivity table given to fit_arrhenius.py holds 0..MaxRows rows

----------------------------------------------------------------------------
(* MSD files on disk.  A file is what pandas.read_csv parses from it: a    *)
(* column count, a row count and, per four-column species block, the       *)
(* series held by the block's MSD columns.  A cell is an integer, NaN (a   *)
(* missing cell or a nan token) or Text (a token that is no number, which  *)
(* makes pandas keep the whole column as strings: dtype object).           *)

Text == [k |-> "text", n |-> 0, d |-> 1]

SeriesIds == {"lin1", "lin2", "half", "flat", "neg", "edge", "noisy_lo",
              "noisy_hi", "nan_all", "nan_one", "text"}

(* r^2 of samples 1..11 of this series is exactly 19/20. *)
EdgeVals == <<5, 0, 0, 0, 2, 4, 6, 7, 12, 14, 16, 16>>

Cell(id, i) ==
    CASE id = "lin1" -> Int2Rat(6 * i)
      [] id = "lin2" -> Int2Rat(12 * i + 3)
      [] id = "half" -> Int2Rat(3 * i)
      [] id = "flat" -> Int2Rat(5)
      [] id = "neg" -> Int2Rat(100 - 6 * i)
      [] id = "edge" -> Int2Rat(IF i < Len(EdgeVals) THEN EdgeVals[i + 1]
                                ELSE 2 * i - 4)
      [] id = "noisy_lo" -> Int2Rat(2 * i + 8 * (i % 2))
      [] id = "noisy_hi" -> Int2Rat(6 * i + (i % 2))
      [] id = "nan_all" -> NaN
      [] id = "nan_one" -> IF i = 5 THEN NaN ELSE Int2Rat(6 * i)
      [] id = "text" -> IF i = 5 THEN Text ELSE Int2Rat(6 * i)

Column(id, n) ==
    LET vals == [k \in 1..n |-> Cell(id, k - 1)]
    IN  [dtype |-> IF \E k \in 1..n : vals[k] = Text THEN "object" ELSE "float64",
         vals |-> vals]

NaNColumn(n) == [dtype |-> "float64", vals |-> [k \in 1..n |-> NaN]]

StepColumn(n) == [k \in 1..n |-> k - 1]

----------------------------------------------------------------------------
(* scipy.stats.linregress on exact numbers. *)

RECURSIVE SumSeq(_)
SumSeq(s) == IF s = <<>> THEN 0 ELSE Head(s) + SumSeq(Tail(s))

Dot(s, t) == SumSeq([k \in 1..Len(s) |-> s[k] * t[k]])

HasNaN(s) == \E k \in 1..Len(s) : s[k] = NaN

(* n times the centred sum of products of two integer samples *)
CenteredSum(s, t) == Len(s) * Dot(s, t) - SumSeq(s) * SumSeq(t)

(* The line through n points with centred sums Sxx, Syy, Sxy *)
LineOf(n, Sxx, Syy, Sxy) ==
    LET r2 == IF Sxx = 0 \/ Syy = 0 THEN Zero
              ELSE RMul(Rat(Sxy, Sxx), Rat(Sxy, Syy))
    IN  [slope |-> Rat(Sxy, Sxx),
         r2 |-> r2,
         stderr2 |-> RDiv(RMul(RSub(One, r2), Rat(Syy, Sxx)), Int2Rat(n - 2))]

(* x: integer sample times; yv: float cells (integers or NaN). *)
linregress(x, yv) ==
    IF HasNaN(yv)
    THEN [slope |-> NaN, r2 |-> NaN, stderr2 |-> NaN]
    ELSE LET y == [k \in 1..Len(x) |-> yv[k].n]
         IN  LineOf(Len(x), CenteredSum(x, x), CenteredSum(y, y), CenteredSum(x, y))

----------------------------------------------------------------------------
(* scripts/analyze_msd.py *)

Files == [exists : BOOLEAN, ncols : 1..MaxCols, n : 0..MaxLen,
          a : SeriesIds, b : SeriesIds]

NoTable(err) ==
    [loaded |-> FALSE, error |-> err, n |-> 0, step |-> <<>>,
     msd_Mg_total |-> NaNColumn(0), msd_Al_total |-> NaNColumn(0)]

(* A loader that takes every column count below 9 for one species *)
read_any_columns(file) ==
    IF ~file.exists THEN NoTable("FileNotFoundError")
    ELSE IF file.n = 0 THEN NoTable("EmptyDataError")
    ELSE [loaded |-> TRUE, error |-> "", n |-> file.n, step |-> StepColumn(file.n),
          msd_Mg_total |-> Column(file.a, file.n),
          msd_Al_total |-> IF file.ncols >= TwoSpeciesCols
                           THEN Column(file.b, file.n) ELSE NaNColumn(file.n)]

(* A loader that reads the one species of a 5-column file as both species *)
read_single_as_both(file) ==
    IF ~file.exists THEN NoTable("FileNotFoundError")
    ELSE IF file.n = 0 THEN NoTable("EmptyDataError")
    ELSE IF file.ncols = SingleSpeciesCols \/ file.ncols >= TwoSpeciesCols THEN
        [loaded |-> TRUE, error |-> "", n |-> file.n, step |-> StepColumn(file.n),
         msd_Mg_total |-> Column(file.a, file.n),
         msd_Al_total |-> IF file.ncols = SingleSpeciesCols
                          THEN Column(file.a, file.n) ELSE Column(file.b, file.n)]
    ELSE NoTable("ValueError")

(* read_msd_file: every exception raised while reading (a missing file, a  *)
(* file with no data rows, an unexpected column count) is printed and None *)
(* is returned.                                                            *)
read_msd_file(file) ==
    IF ~file.exists THEN NoTable("FileNotFoundError")
    ELSE IF file.n = 0 THEN NoTable("EmptyDataError")
    ELSE IF file.ncols = SingleSpeciesCols THEN
        [loaded |-> TRUE, error |-> "", n |-> file.n, step |-> StepColumn(file.n),
         msd_Mg_total |-> Column(file.a, file.n),
         msd_Al_total |-> NaNColumn(file.n)]
    ELSE IF file.ncols >= TwoSpeciesCols THEN
        [loaded |-> TRUE, error |-> "", n |-> file.n, step |-> StepColumn(file.n),
         msd_Mg_total |-> Column(file.a, file.n),
         msd_Al_total |-> Column(file.b, file.n)]
    ELSE NoTable("ValueError")

NoNaNCheck(vals) == FALSE      \* an estimator without the all-NaN test
AllNaN(vals) == \A k \in 1..Len(vals) : vals[k] = NaN

(* int(len * start_fraction) for a fraction >= 0 *)
StartIdx(n, start_fraction) == (n * start_fraction.n) \div start_fraction.d

Estimate(exc, D, r2, D_err2) == [exc |-> exc, D |-> D, r2 |-> r2, D_err2 |-> D_err2]
Insufficient == Estimate("", None, None, None)

(* the estimator was not called *)
NotRun == Estimate("not run", None, None, None)

(* An estimate that reports the slope of the fitted line as it is *)
FromSlope(fit, two_dim) == Estimate("", fit.slope, fit.r2, fit.stderr2)

(* D = slope / (2 * dim) of the fitted line, with r^2 and std_err / (2 * dim) *)
FromFit(fit, two_dim) ==
    Estimate("", FDiv(fit.slope, Int2Rat(two_dim)), fit.r2,
             FDiv(fit.stderr2, Int2Rat(two_dim * two_dim)))

(* compute_diffusivity: (D, r2, std_err / 6), or (None, None, None), or an *)
(* exception.  np.isnan is not defined on a column of dtype object.        *)
compute_diffusivity(msd_data, species, start_fraction) ==
    LET column == IF species = "Mg" THEN msd_data.msd_Mg_total
                  ELSE msd_data.msd_Al_total
        start_idx == StartIdx(msd_data.n, start_fraction)
        time == SubSeq(msd_data.step, start_idx + 1, msd_data.n)
        msd == SubSeq(column.vals, start_idx + 1, msd_data.n)
    IN  IF species \notin {"Mg", "Al"} THEN Estimate("KeyError", None, None, None)
        ELSE IF column.dtype = "object" THEN Estimate("TypeError", None, None, None)
        ELSE IF AllNaN(column.vals) THEN Insufficient
        ELSE IF Len(time) < MinPoints THEN Insufficient
        ELSE FromFit(linregress(time, msd), 6)

x_Mg == RDiv(Mg_atomic_percent, Int2Rat(100))
x_Al == RSub(One, x_Mg)

OrNaN(v) == IF v = None THEN NaN ELSE v

(* A species loop that writes every estimated D into the row as it is *)
SpeciesColumnsAnySign(est) ==
    [D |-> OrNaN(est.D), D_err2 |-> OrNaN(est.D_err2), R2 |-> OrNaN(est.r2),
     valid |-> est.D # None /\ est.r2 # None /\ FGe(est.r2, msd_r2_threshold),
     printed |-> IF est.D # None /\ est.r2 # None THEN {"D, R2, Valid"}
                 ELSE {"Insufficient data"}]

(* The body of the species loop: the estimate est of one species becomes   *)
(* the four columns of the row and the lines printed.                      *)
SpeciesColumns(est) ==
    LET nonpositive == est.D # None /\ FLe(est.D, Zero)
        D == IF nonpositive THEN None ELSE est.D
        D_err2 == IF nonpositive THEN None ELSE est.D_err2
        r2 == est.r2
        valid == D # None /\ r2 # None /\ FGe(r2, msd_r2_threshold)
    IN  [D |-> OrNaN(D), D_err2 |-> OrNaN(D_err2), R2 |-> OrNaN(r2),
         valid |-> valid,
         printed |->
            (IF est.exc = "KeyError" THEN {"Missing data"} ELSE {})
            \cup (IF nonpositive THEN {"Non-positive diffusivity"} ELSE {})
            \cup (IF D # None /\ r2 # None THEN {"D, R2, Valid"}
                  ELSE {"Insufficient data"})]

(* Variants of the interdiffusion columns: gated on either species, and   *)
(* with each species weighted by its own mole fraction.                    *)
InterdiffEither(Mg, Al) ==
    IF Mg.valid \/ Al.valid
    THEN [D_interdiff |-> FAdd(FMul(x_Mg, Al.D), FMul(x_Al, Mg.D)),
          valid_interdiff |-> TRUE]
    ELSE [D_interdiff |-> NaN, valid_interdiff |-> FALSE]

InterdiffOwnFraction(Mg, Al) ==
    IF Mg.valid /\ Al.valid
    THEN [D_interdiff |-> FAdd(FMul(x_Mg, Mg.D), FMul(x_Al, Al.D)),
          valid_interdiff |-> TRUE]
    ELSE [D_interdiff |-> NaN, valid_interdiff |-> FALSE]

(* The interdiffusion columns of a row. *)
Interdiff(Mg, Al) ==
    IF Mg.valid /\ Al.valid
    THEN [D_interdiff |-> FAdd(FMul(x_Mg, Al.D), FMul(x_Al, Mg.D)),
          valid_interdiff |-> TRUE]
    ELSE [D_interdiff |-> NaN, valid_interdiff |-> FALSE]

Row(T, Mg, Al, inter) ==
    [T |-> T,
     D_Mg |-> Mg.D, D_Mg_err2 |-> Mg.D_err2, R2_Mg |-> Mg.R2, valid_Mg |-> Mg.valid,
     D_Al |-> Al.D, D_Al_err2 |-> Al.D_err2, R2_Al |-> Al.R2, valid_Al |-> Al.valid,
     D_interdiff |-> inter.D_interdiff, valid_interdiff |-> inter.valid_interdiff]

Printed(T, species, msgs) == {[T |-> T, species |-> species, msg |-> m] : m \in msgs}

(* One iteration of the loop over T_md: the row appended (if any) and the  *)
(* lines printed.  An exception other than KeyError raised by an estimate  *)
(* leaves the species loop and is caught by the per-temperature handler,   *)
(* which prints it and goes on to the next temperature.                    *)
Iteration(T, msd_data, estMg, estAl, Mg, Al) ==
    LET uncaught(est) == est.exc \notin {"", "KeyError"}
        appended == msd_data.loaded /\ ~uncaught(estMg) /\ ~uncaught(estAl)
    IN  [appended |-> appended,
         row |-> Row(Int2Rat(T), Mg, Al, Interdiff(Mg, Al)),
         msd_data |-> msd_data,
         Mg |-> IF msd_data.loaded THEN estMg ELSE NotRun,
         Al |-> IF msd_data.loaded /\ ~uncaught(estMg) THEN estAl ELSE NotRun,
         printed |->
            IF ~msd_data.loaded THEN Printed(T, "", {"Error reading"})
            ELSE IF uncaught(estMg) THEN Printed(T, "", {"Error analyzing"})
            ELSE IF uncaught(estAl)
            THEN Printed(T, "Mg", Mg.printed) \cup Printed(T, "", {"Error analyzing"})
            ELSE Printed(T, "Mg", Mg.printed) \cup Printed(T, "Al", Al.printed)]

Estimated(T, msd_data, estMg, estAl) ==
    Iteration(T, msd_data, estMg, estAl, SpeciesColumns(estMg), SpeciesColumns(estAl))

Loaded(T, msd_data, start_fraction) ==
    Estimated(T, msd_data, compute_diffusivity(msd_data, "Mg", start_fraction),
              compute_diffusivity(msd_data, "Al", start_fraction))

AnalyzeOne(T, file, start_fraction) == Loaded(T, read_msd_file(file), start_fraction)

----------------------------------------------------------------------------
(* scripts/fit_arrhenius.py *)

(* A finite real number whose value the exact arithmetic does not track    *)
(* (the logarithm of a rational that is no power of two, and what is       *)
(* computed from it).                                                      *)
Real == [k |-> "real", n |-> 0, d |-> 1]
NegInf == [k |-> "-inf", n |-> 0, d |-> 1]
IsFinite(v) == v.k \in {"num", "real"}

RECURSIVE Log2Int(_)
(* k with 2^k = m, or -1 when the integer m >= 1 is no power of two *)
Log2Int(m) ==
    IF m = 1 THEN 0
    ELSE IF m % 2 = 1 THEN -1
    ELSE LET r == Log2Int(m \div 2) IN IF r = -1 THEN -1 ELSE r + 1

(* np.log, in units of ln 2: NaN (with a warning) below zero, -inf at zero *)
np_log(D) ==
    IF D.k # "num" THEN D
    ELSE IF D.n < 0 THEN NaN
    ELSE IF D.n = 0 THEN NegInf
    ELSE IF D.d = 1 /\ Log2Int(D.n) # -1 THEN Int2Rat(Log2Int(D.n))
    ELSE IF D.n = 1 /\ Log2Int(D.d) # -1 THEN Int2Rat(-Log2Int(D.d))
    ELSE Real

(* A product 2^e * c * sqrt(v) of tracked factors: np.exp of a logarithm   *)
(* in units of ln 2 is 2^e, np.sqrt of a variance v is sqrt(v).            *)
Sym(e, c, v) == [e |-> e, c |-> c, v |-> v]
XAdd(a, b) ==
    IF a.k = "num" /\ b.k = "num" THEN RAdd(a, b)
    ELSE IF IsFinite(a) /\ IsFinite(b) THEN Real ELSE NaN
XMul(a, b) ==
    IF a.k = "num" /\ b.k = "num" THEN RMul(a, b)
    ELSE IF IsFinite(a) /\ IsFinite(b) THEN Real ELSE NaN
XDiv(a, b) ==
    IF a.k = "num" /\ b.k = "num" THEN RDiv(a, b)
    ELSE IF IsFinite(a) /\ IsFinite(b) THEN Real ELSE NaN
SymMul(a, b) == Sym(XAdd(a.e, b.e), XMul(a.c, b.c), XMul(a.v, b.v))
np_exp(x) == Sym(x, One, One)
np_sqrt(v) == Sym(Zero, One, v)
SymOf(c) == Sym(Zero, c, One)

RECURSIVE Lcm(_)
Lcm(s) ==
    IF s = <<>> THEN 1
    ELSE LET l == Lcm(Tail(s)) IN (Head(s) * l) \div Gcd(Head(s), l)

Columns == {"T", "D_Mg", "D_Mg_err", "R2_Mg", "valid_Mg", "D_Al", "D_Al_err",
            "R2_Al", "valid_Al", "D_interdiff", "valid_interdiff"}

(* df[col] of one row, for the float columns *)
Col(row, col) ==
    CASE col = "T" -> row.T
      [] col = "D_Mg" -> row.D_Mg
      [] col = "R2_Mg" -> row.R2_Mg
      [] col = "D_Al" -> row.D_Al
      [] col = "R2_Al" -> row.R2_Al
      [] col = "D_interdiff" -> row.D_interdiff

(* DataFrame.dropna(subset): the rows with a value in every listed column *)
dropna(df, subset) ==
    SelectSeq(df, LAMBDA row : \A col \in subset : Col(row, col) # NaN)

(* np.polyfit(inv_T, log_D, 1, cov=True) for inv_T = 1 / T with integer T, *)
(* distinct for at least two rows, and integer log_D: the least-squares    *)
(* line and the diagonal of its covariance matrix, the inverse of the      *)
(* normal matrix scaled by the residual sum of squares over n - 2.  The    *)
(* sums are taken over the integers L / T, L a common multiple of the T.   *)
polyfit(T, y) ==
    LET n == Len(T)
        L == Lcm(T)
        x == [i \in 1..n |-> L \div T[i]]
        Dxx == n * Dot(x, x) - SumSeq(x) * SumSeq(x)
        Dxy == n * Dot(x, y) - SumSeq(x) * SumSeq(y)
        Dyy == n * Dot(y, y) - SumSeq(y) * SumSeq(y)
        slopeL == Rat(Dxy, Dxx)
        rss == RDiv(RSub(Int2Rat(Dyy), RMul(Int2Rat(Dxy), slopeL)), Int2Rat(n))
        s2 == RDiv(rss, Int2Rat(n - 2))
    IN  [slope |-> RMul(Int2Rat(L), slopeL),
         intercept |-> RDiv(RSub(Int2Rat(SumSeq(y)), RMul(slopeL, Int2Rat(SumSeq(x)))),
                            Int2Rat(n)),
         slope_err |-> SymMul(SymOf(Int2Rat(L)),
                              np_sqrt(RMul(s2, Rat(n, Dxx)))),
         intercept_err |-> np_sqrt(RMul(s2, Rat(Dot(x, x), Dxx)))]

QOfNoSign(slope) == XMul(slope, R)      \* an activation energy of the slope's sign
QOf(slope) == XMul(RNeg(One), XMul(slope, R))
D0NoExp(intercept) == SymOf(intercept)  \* a prefactor that is the intercept itself
D0Of(intercept) == np_exp(intercept)
Q_errOf(slope_err) == SymMul(slope_err, SymOf(R))
D0_errOf(D0, intercept_err) == SymMul(D0, intercept_err)
Q_eVOf(Q) == XDiv(Q, Int2Rat(Faraday))

(* What fit_arrhenius returns for the line lin through the rows df_valid:  *)
(* (D0, Q, Q_eV, popt, pcov, df_valid), with the locals it derives them    *)
(* from.  popt is the pair (D0, Q) of the linear fit: curve_fit is         *)
(* imported and never called.  pcov holds the squares of D0_err and Q_err  *)
(* on its diagonal.                                                        *)
Fitted(lin, df_valid) ==
    LET Q == QOf(lin.slope)
        D0 == D0Of(lin.intercept)
    IN  [raised |-> "", df_valid |-> df_valid,
         slope |-> lin.slope, intercept |-> lin.intercept,
         slope_err |-> lin.slope_err, intercept_err |-> lin.intercept_err,
         D0 |-> D0, Q |-> Q, Q_eV |-> Q_eVOf(Q), popt |-> <<D0, Q>>,
         pcov |-> [D0 |-> [sq_of |-> D0_errOf(D0, lin.intercept_err)],
                   Q |-> [sq_of |-> Q_errOf(lin.slope_err)]]]

AllLine(v) ==
    [slope |-> v, intercept |-> v, slope_err |-> np_sqrt(v), intercept_err |-> np_sqrt(v)]

Raised(exc, df_valid) == [Fitted(AllLine(NaN), df_valid) EXCEPT !.raised = exc]

(* The rows fit_arrhenius regresses on *)
UsableRows(df, D_col, weight_col) ==
    LET df_valid == dropna(df, {"T", D_col})
    IN  IF weight_col # "" /\ weight_col \in Columns
        THEN dropna(df_valid, {weight_col}) ELSE df_valid

(* fit_arrhenius(df, D_col, weight_col): the set of its possible outcomes. *)
(* The logarithm of a non-positive D is NaN or -inf and np.polyfit on such *)
(* values, depending on the LAPACK build, raises LinAlgError or returns    *)
(* NaN coefficients; with all T equal the normal matrix is singular and    *)
(* its inversion raises LinAlgError or, by rounding, returns huge values.  *)
fit_arrhenius(df, D_col, weight_col) ==
    LET df_valid == UsableRows(df, D_col, weight_col)
        n == Len(df_valid)
        T == [i \in 1..n |-> Col(df_valid[i], "T").n]
        log_D == [i \in 1..n |-> np_log(Col(df_valid[i], D_col))]
    IN  IF n < MinFitRows THEN {Raised("ValueError", df_valid)}
        ELSE IF \E i \in 1..n : ~IsFinite(log_D[i])
        THEN {Raised("LinAlgError", df_valid), Fitted(AllLine(NaN), df_valid)}
        ELSE IF \A i \in 1..n : T[i] = T[1]
        THEN {Raised("LinAlgError", df_valid), Fitted(AllLine(Real), df_valid)}
        ELSE IF \E i \in 1..n : log_D[i].k = "real"
        THEN {Fitted(AllLine(Real), df_valid)}
        ELSE {Fitted(polyfit(T, [i \in 1..n |-> log_D[i].n]), df_valid)}

(* an extrapolation that keeps only the rows with a value *)
extrapolate_gated(D0, Q) ==
    SelectSeq([i \in 1..Len(T_dsa) |->
                  [T |-> T_dsa[i],
                   D |-> SymMul(D0, np_exp(XDiv(XMul(RNeg(One), Q), XMul(R, T_dsa[i]))))]],
              LAMBDA row : row.D.e # NaN)

(* arrhenius(T, D0, Q) = D0 * np.exp(-Q / (R * T)), for D0 a product as    *)
(* returned by the fit and Q in units of ln 2 * J/mol                      *)
arrhenius(T, D0, Q) ==
    SymMul(D0, np_exp(XDiv(XMul(RNeg(One), Q), XMul(R, T))))

(* extrapolate_to_dsa_temps(D0, Q) with its default T_extrap = T_dsa *)
extrapolate_to_dsa_temps(D0, Q) ==
    [i \in 1..Len(T_dsa) |-> [T |-> T_dsa[i], D |-> arrhenius(T_dsa[i], D0, Q)]]

(* DataFrame.to_csv and pd.read_csv: a NaN is written as an empty cell and *)
(* an empty cell is read as NaN; a number is written in full precision.    *)
Empty == [k |-> "empty", n |-> 0, d |-> 1]
WriteCell(v) == IF v = NaN THEN Empty ELSE v
ReadCell(c) == IF c = Empty THEN NaN ELSE c
WriteRow(row) ==
    [row EXCEPT !.T = WriteCell(@), !.D_Mg = WriteCell(@), !.D_Mg_err2 = WriteCell(@),
                !.R2_Mg = WriteCell(@), !.D_Al = WriteCell(@),
                !.D_Al_err2 = WriteCell(@), !.R2_Al = WriteCell(@),
                !.D_interdiff = WriteCell(@)]
ReadRow(row) ==
    [row EXCEPT !.T = ReadCell(@), !.D_Mg = ReadCell(@), !.D_Mg_err2 = ReadCell(@),
                !.R2_Mg = ReadCell(@), !.D_Al = ReadCell(@),
                !.D_Al_err2 = ReadCell(@), !.R2_Al = ReadCell(@),
                !.D_interdiff = ReadCell(@)]
to_csv(df) == [exists |-> TRUE, rows |-> [i \in 1..Len(df) |-> WriteRow(df[i])]]
read_csv(file) == [i \in 1..Len(file.rows) |-> ReadRow(file.rows[i])]
Absent == [exists |-> FALSE, rows |-> <<>>]

(* df[df[weight_col] >= r2_threshold] *)
FilterR2(df, weight_col, r2_threshold) ==
    SelectSeq(df, LAMBDA row : FGe(Col(row, weight_col), r2_threshold))

(* main() of fit_arrhenius.py up to the fit: the set of possible outcomes  *)
main_fit(file, species, r2_threshold) ==
    LET df == read_csv(file)
        D_col == IF species = "interdiff" THEN "D_interdiff"
                 ELSE IF species = "Mg" THEN "D_Mg" ELSE "D_Al"
        weight_col == IF species = "interdiff" THEN ""
                      ELSE IF species = "Mg" THEN "R2_Mg" ELSE "R2_Al"
        filtered == IF species # "interdiff" /\ RLt(Zero, r2_threshold)
                       /\ weight_col \in Columns
                    THEN FilterR2(df, weight_col, r2_threshold) ELSE df
    IN  IF ~file.exists THEN {Raised("FileNotFoundError", <<>>)}
        ELSE fit_arrhenius(filtered, D_col, weight_col)

----------------------------------------------------------------------------
(* scripts/check_msd_quality.py and scripts/analyze_interface_msd.py *)

NoFrame(err) ==
    [loaded |-> FALSE, error |-> err, schema |-> "", n |-> 0, step |-> <<>>,
     a |-> NaNColumn(0), b |-> NaNColumn(0)]

(* load_msd_file: raises on a missing file, a file without rows and an     *)
(* unexpected column count; a is the column read for Mg (or the single     *)
(* species), b the column read for Al.                                     *)
load_msd_file(file) ==
    IF ~file.exists THEN NoFrame("FileNotFoundError")
    ELSE IF file.n = 0 THEN NoFrame("EmptyDataError")
    ELSE IF file.ncols = SingleSpeciesCols THEN
        [loaded |-> TRUE, error |-> "", schema |-> "bulk", n |-> file.n,
         step |-> StepColumn(file.n), a |-> Column(file.a, file.n),
         b |-> NaNColumn(0)]
    ELSE IF file.ncols >= TwoSpeciesCols THEN
        [loaded |-> TRUE, error |-> "", schema |-> "interface", n |-> file.n,
         step |-> StepColumn(file.n), a |-> Column(file.a, file.n),
         b |-> Column(file.b, file.n)]
    ELSE NoFrame("ValueError")

(* analyze_component: a dict of the fit, None, or an exception *)
analyze_component(time_ps, msd_ang, start_fraction) ==
    LET n == Len(time_ps)
        start_idx == StartIdx(n, start_fraction)
        time == SubSeq(time_ps, start_idx + 1, n)
        msd == SubSeq(msd_ang.vals, start_idx + 1, n)
    IN  IF msd_ang.dtype = "object" THEN Estimate("TypeError", None, None, None)
        ELSE IF AllNaN(msd_ang.vals) THEN Insufficient
        ELSE IF Len(time) < MinPointsQuality THEN Insufficient
        ELSE FromFit(linregress(time, msd), 2)

DefaultStartFraction == Rat(2, 10)

(* check_msd_file: the outcome for each species, in the order analysed; an *)
(* exception raised by analyze_component is not caught and ends the script *)
check_msd_file(file) ==
    LET df == load_msd_file(file)
        time_ps == df.step
        ra == analyze_component(time_ps, df.a, DefaultStartFraction)
        rb == analyze_component(time_ps, df.b, DefaultStartFraction)
    IN  IF ~df.loaded
        THEN [error |-> df.error, schema |-> "", crashed |-> FALSE,
              Mg |-> NotRun, Al |-> NotRun]
        ELSE IF df.schema = "bulk"
        THEN [error |-> "", schema |-> "bulk", crashed |-> ra.exc # "",
              Mg |-> ra, Al |-> NotRun]
        ELSE [error |-> "", schema |-> "interface",
              crashed |-> ra.exc # "" \/ rb.exc # "",
              Mg |-> ra, Al |-> IF ra.exc # "" THEN NotRun ELSE rb]

(* The species loop of analyze_interface_msd.py on a column of the nine    *)
(* named ones (a file's missing columns are read as NaN): the first 20% of *)
(* the samples are cut, fewer than 10 left are reported and skipped.       *)
interface_species(step, column) ==
    LET n == Len(step)
        cut_index == StartIdx(n, DefaultStartFraction)
        t == SubSeq(step, cut_index + 1, n)
        m == SubSeq(column.vals, cut_index + 1, n)
    IN  IF column.dtype = "object" THEN Estimate("TypeError", None, None, None)
        ELSE IF Len(t) < MinPoints THEN Insufficient
        ELSE FromFit(linregress(t, m), 2)

(* Columns Mg_z (the 4th) and Al_z (the 8th) of a file of at most 9        *)
(* columns; a file without rows is read as an empty table, whose first     *)
(* step does not exist.                                                    *)
analyze_interface_msd(file) ==
    LET Mg_z == IF file.ncols >= 4 THEN Column(file.a, file.n) ELSE NaNColumn(file.n)
        Al_z == IF file.ncols >= 8 THEN Column(file.b, file.n) ELSE NaNColumn(file.n)
        rm == interface_species(StepColumn(file.n), Mg_z)
        ra == interface_species(StepColumn(file.n), Al_z)
    IN  IF ~file.exists
        THEN [error |-> "File not found", schema |-> "", crashed |-> FALSE,
              Mg |-> NotRun, Al |-> NotRun]
        ELSE IF file.n = 0
        THEN [error |-> "IndexError", schema |-> "", crashed |-> TRUE,
              Mg |-> NotRun, Al |-> NotRun]
        ELSE [error |-> "", schema |-> "interface",
              crashed |-> rm.exc # "" \/ ra.exc # "",
              Mg |-> rm, Al |-> IF rm.exc # "" THEN NotRun ELSE ra]

----------------------------------------------------------------------------
(* scripts/analyze_dsa.py *)

(* The quantities of the sweep are carried as exact rationals in the units *)
(* 1e-7 m for L_c and L_t, 1e12 m^-2 for rho_m, 1e-10 m for b, 1e-3 s^-1   *)
(* for epsilon_dot and 1e-8 m^2/s for D; tau_diff and tau_wait are then    *)
(* both in units of 1e-6 and ratio is the number the script computes.      *)
b_burgers == Rat(286, 100)                       \* constants.b = 2.86e-10
epsilon_dot == One                               \* 1e-3
rho_m_values == <<Int2Rat(1), Int2Rat(10), Int2Rat(100)>>
L_capture == <<Rat(1, 100), Rat(2, 100), Rat(5, 100)>>
L_travel == <<Int2Rat(1), Int2Rat(10), Int2Rat(100)>>
f_pipe == One

PosInf == [k |-> "+inf", n |-> 0, d |-> 1]
IsInf(v) == v = PosInf \/ v = NegInf
Sign(v) == IF v = PosInf THEN 1 ELSE IF v = NegInf THEN -1
           ELSE IF v.n > 0 THEN 1 ELSE IF v.n < 0 THEN -1 ELSE 0

(* a / b of two numpy floats: division by zero gives inf or NaN (with a    *)
(* warning), never an exception                                            *)
FloatDiv(a, b) ==
    IF a = NaN \/ b = NaN THEN NaN
    ELSE IF IsInf(b) THEN (IF IsInf(a) THEN NaN ELSE Zero)
    ELSE IF b.n = 0 THEN (IF Sign(a) = 0 THEN NaN
                          ELSE IF Sign(a) > 0 THEN PosInf ELSE NegInf)
    ELSE IF IsInf(a) THEN (IF Sign(a) * Sign(b) > 0 THEN PosInf ELSE NegInf)
    ELSE RDiv(a, b)

FloatLt(a, b) ==
    IF a = NaN \/ b = NaN THEN FALSE
    ELSE IF a = PosInf \/ b = NegInf THEN FALSE
    ELSE IF a = NegInf \/ b = PosInf THEN TRUE
    ELSE RLt(a, b)

compute_tau_diff(L_c, D_eff) == FloatDiv(RMul(L_c, L_c), D_eff)

(* a waiting time that does not depend on the length *)
tau_wait_unit(L_t, rho_m, burgers, rate) ==
    FloatDiv(One, RMul(RMul(rho_m, burgers), rate))
compute_tau_wait(L_t, rho_m, burgers, rate) ==
    FloatDiv(L_t, RMul(RMul(rho_m, burgers), rate))

(* A CSV file given with --input: the columns it has and its rows; the     *)
(* field D of a row is its cell in the diffusivity column that             *)
(* normalize_diffusivity_df picks.                                         *)
DsaFile(cols, rows) == [exists |-> TRUE, cols |-> cols, rows |-> rows]
NoDsaFile == [exists |-> FALSE, cols |-> {}, rows |-> <<>>]

normalize_diffusivity_df(file) ==
    IF {"D", "D_bulk", "D_interdiff"} \cap file.cols = {}
    THEN [error |-> "KeyError", df |-> <<>>]
    ELSE IF "T" \notin file.cols THEN [error |-> "KeyError", df |-> <<>>]
    ELSE [error |-> "",
          df |-> SelectSeq(file.rows, LAMBDA row : row.T # NaN /\ row.D # NaN)]

(* np.argsort(x) applied to the rows: ascending T *)
RECURSIVE SortByT(_)
SortByT(df) ==
    IF df = <<>> THEN <<>>
    ELSE LET rest == SortByT(Tail(df))
             before == SelectSeq(rest, LAMBDA row : RLt(row.T, Head(df).T))
             after == SelectSeq(rest, LAMBDA row : ~RLt(row.T, Head(df).T))
         IN  before \o <<Head(df)>> \o after

(* interp1d(T, D, kind="linear", bounds_error=False,                       *)
(* fill_value="extrapolate"): raises ValueError for no point; the points   *)
(* are sorted by T.                                                        *)
interp1d(df) ==
    [error |-> IF Len(df) < 1 THEN "ValueError" ELSE "", points |-> SortByT(df)]

Clip(i, lo, hi) == IF i > hi THEN hi ELSE IF i < lo THEN lo ELSE i

Line(lo, hi, T) ==
    LET slope == FloatDiv(RSub(hi.D, lo.D), RSub(hi.T, lo.T))
    IN  FAdd(FMul(slope, RSub(T, lo.T)), lo.D)

(* f_D_bulk(T): the line through the two points around T, the first two    *)
(* below the range and the last two above it; with a single point both     *)
(* are that point and the slope 0 / 0 is NaN.  The T of the points are     *)
(* distinct.                                                               *)
call_linear(f, T) ==
    LET n == Len(f.points)
        below == Cardinality({i \in 1..n : RLt(f.points[i].T, T)})
        idx == Clip(below, 1, n - 1)
    IN  IF n = 1 THEN Line(f.points[1], f.points[1], T)
        ELSE Line(f.points[idx], f.points[idx + 1], T)

Timescales(T, D_bulk, D_eff, tau_diff, tau_wait) ==
    [T |-> T, D_bulk |-> D_bulk, D_eff |-> D_eff, tau_diff |-> tau_diff,
     tau_wait |-> tau_wait, ratio |-> FloatDiv(tau_diff, tau_wait)]

Effective(T, D_bulk, D_eff, key) ==
    Timescales(T, D_bulk, D_eff, compute_tau_diff(key.L_c, D_eff),
               compute_tau_wait(key.L_t, key.rho_m, b_burgers, epsilon_dot))

(* a sweep that takes the travel distance for the capture radius and back *)
DsaRowSwapped(T, D_bulk, pipe_factor, key) ==
    Effective(T, D_bulk, FMul(D_bulk, RAdd(One, pipe_factor)),
              [key EXCEPT !.L_c = key.L_t, !.L_t = key.L_c])
(* One pass of the loop over T_dsa: the dict appended to data *)
DsaRow(T, D_bulk, pipe_factor, key) ==
    Effective(T, D_bulk, FMul(D_bulk, RAdd(One, pipe_factor)), key)

(* The body of the loops over rho_m, L_c and L_t for key = (rho_m, L_c,    *)
(* L_t): the frame built from a fresh list data                            *)
scenario_data(f, pipe_factor, key) ==
    [i \in 1..Len(T_dsa) |-> DsaRow(T_dsa[i], call_linear(f, T_dsa[i]), pipe_factor, key)]

Key(rho_m, L_c, L_t) == [rho_m |-> rho_m, L_c |-> L_c, L_t |-> L_t]

(* a dict all of whose entries share the frame last stored *)
setitem_shared(results, key, df) == [k \in DOMAIN results \cup {key} |-> df]
(* results[key] = df *)
setitem(results, key, df) ==
    [k \in DOMAIN results \cup {key} |-> IF k = key THEN df ELSE results[k]]

(* one loop over the three lists side by side *)
ZipOrder(config) ==
    [i \in 1..Len(config.rho_m_values) |->
        Key(config.rho_m_values[i], config.L_capture[i], config.L_travel[i])]
(* The keys of results in the order of the three nested loops *)
LoopOrder(config) ==
    LET nr == Len(config.rho_m_values)
        nc == Len(config.L_capture)
        nt == Len(config.L_travel)
    IN  [i \in 1..(nr * nc * nt) |->
            Key(config.rho_m_values[((i - 1) \div (nc * nt)) + 1],
                config.L_capture[(((i - 1) \div nt) % nc) + 1],
                config.L_travel[((i - 1) % nt) + 1])]

(* a regime of the rows outside the two bounds *)
in_regime_outside(df) ==
    [i \in 1..Len(df) |-> ~(FloatLt(Rat(1, 10), df[i].ratio)
                            /\ FloatLt(df[i].ratio, Int2Rat(10)))]

(* a regime read off the magnitude of the ratio *)
in_regime_magnitude(df) ==
    [i \in 1..Len(df) |->
        /\ IsNum(df[i].ratio)
        /\ 10 * Abs(df[i].ratio.n) > df[i].ratio.d
        /\ Abs(df[i].ratio.n) < 10 * df[i].ratio.d]

(* a regime that includes its two bounds *)
in_regime_closed(df) ==
    [i \in 1..Len(df) |-> ~FloatLt(df[i].ratio, Rat(1, 10))
                          /\ ~FloatLt(Int2Rat(10), df[i].ratio)
                          /\ df[i].ratio # NaN]
(* in_regime of one frame: (ratio > 0.1) & (ratio < 10.0), row by row *)
in_regime(df) ==
    [i \in 1..Len(df) |-> FloatLt(Rat(1, 10), df[i].ratio)
                          /\ FloatLt(df[i].ratio, Int2Rat(10))]

(* format(x, ".0f") of x >= 0: the nearest integer, a tie to the even one *)
Format0f(x) ==
    LET q == x.n \div x.d
        r2 == 2 * (x.n % x.d)
    IN  IF r2 < x.d THEN q
        ELSE IF r2 > x.d THEN q + 1
        ELSE IF q % 2 = 0 THEN q ELSE q + 1

(* format(x * 10^e, ".0e") of x > 0: one digit and the decimal exponent *)
RECURSIVE Format0e(_, _)
Format0e(x, e) ==
    IF ~RLt(x, Int2Rat(10)) THEN Format0e(RDiv(x, Int2Rat(10)), e + 1)
    ELSE IF RLt(x, One) THEN Format0e(RMul(x, Int2Rat(10)), e - 1)
    ELSE IF Format0f(x) = 10 THEN [digit |-> 1, exp |-> e + 1]
    ELSE [digit |-> Format0f(x), exp |-> e]

(* dsa_rho{rho_m:.0e}_Lc{L_c*1e9:.0f}nm_Lt{L_t*1e6:.1f}um.csv: the three   *)
(* formatted numbers, L_c in nm and L_t in tenths of a micrometre          *)
filename(key) ==
    [rho |-> Format0e(key.rho_m, 12),
     Lc |-> Format0f(RMul(key.L_c, Int2Rat(100))),
     Lt |-> Format0f(key.L_t)]

----------------------------------------------------------------------------
(* Inputs of the model. *)

File(ncols, n, a, b) == [exists |-> TRUE, ncols |-> ncols, n |-> n, a |-> a, b |-> b]
Missing == [exists |-> FALSE, ncols |-> 1, n |-> 0, a |-> "lin1", b |-> "lin1"]

(* The MSD recordings analyze_msd.py is run on: the Mg series, the Al      *)
(* series and the number of samples.                                       *)
Recordings ==
    {<<"lin1", "lin1", 12>>, <<"lin2", "half", 12>>, <<"edge", "lin1", 12>>,
     <<"noisy_lo", "noisy_lo", 12>>, <<"lin1", "noisy_lo", 12>>,
     <<"neg", "lin1", 12>>, <<"lin1", "flat", 12>>, <<"nan_all", "lin1", 12>>,
     <<"lin1", "nan_one", 12>>, <<"lin1", "text", 12>>, <<"text", "lin1", 12>>,
     <<"lin1", "lin1", 10>>}

BulkFiles ==
    {File(TwoSpeciesCols, r[3], r[1], r[2]) : r \in Recordings}
    \cup {File(c, 12, "lin2", "half") : c \in 1..MaxCols}
    \cup {File(SingleSpeciesCols, 12, a, "lin1") : a \in {"lin1", "edge", "neg"}}
    \cup {File(TwoSpeciesCols, 0, "lin1", "lin1"), Missing}

QualityFiles ==
    {File(c, n, a, b) : c \in 1..MaxCols, n \in 0..MaxLen, a \in SeriesIds,
                        b \in {"lin1", "nan_all", "text"}}
    \cup {Missing}

StartFractions == {Rat(0, 10), Rat(1, 10), Rat(2, 10)}
R2Thresholds == {Zero, msd_r2_threshold}
FitSpecies == {"Mg", "Al", "interdiff"}
CsvPaths == {"diffusivity_bulk.csv", "interface_diffusivity_1k.csv"}

(* The rows of a diffusivity table handed to fit_arrhenius.py: T, the D of  *)
(* every species and the r^2 of every species.                             *)
FitRow(T, D, R2) ==
    LET c == [D |-> D, D_err2 |-> NaN, R2 |-> R2,
              valid |-> FGt(D, Zero) /\ FGe(R2, msd_r2_threshold)]
    IN  Row(T, c, c, [D_interdiff |-> D, valid_interdiff |-> c.valid])

FitRows ==
    <<FitRow(Int2Rat(500), One, One), FitRow(Int2Rat(500), Int2Rat(2), One),
      FitRow(Int2Rat(600), One, One), FitRow(Int2Rat(600), Rat(1, 2), One),
      FitRow(Int2Rat(700), Int2Rat(2), One), FitRow(Int2Rat(700), One, One),
      FitRow(NaN, One, One), FitRow(Int2Rat(500), NaN, One),
      FitRow(Int2Rat(600), Zero, One), FitRow(Int2Rat(700), RNeg(One), One),
      FitRow(Int2Rat(500), Int2Rat(3), One), FitRow(Int2Rat(600), One, NaN),
      FitRow(Int2Rat(700), Int2Rat(2), Rat(9, 10))>>

(* The tables of n rows, as sequences of indices into FitRows; the order   *)
(* of the rows of a table does not matter to the fit, so indices ascend.   *)
RECURSIVE Ascending(_)
Ascending(n) ==
    IF n = 0 THEN {<<>>}
    ELSE UNION {{Append(t, k) :
                    k \in (IF t = <<>> THEN 1 ELSE t[Len(t)])..Len(FitRows)} :
                t \in Ascending(n - 1)}

FitTables ==
    UNION {{[i \in 1..n |-> FitRows[t[i]]] : t \in Ascending(n)} : n \in 0..MaxRows}

(* Diffusivities that follow the Arrhenius law exactly: the parameters     *)
(* (D0, Q) they are generated from, D0 = 2^e and Q a multiple of R * ln 2  *)
(* that makes every D a power of two, and the temperatures of the rows.    *)
ArrheniusParams ==
    {[D0 |-> np_exp(Int2Rat(e)), Q |-> RMul(Int2Rat(s), R)] :
        <<e, s>> \in {<<35, 21000>>, <<36, 21000>>, <<0, 0>>, <<1, 0>>, <<-35, -21000>>}}

ArrheniusTemps == <<500, 600, 700, 1050>>

RECURSIVE Pow2(_)
Pow2(k) == IF k = 0 THEN One
           ELSE IF k > 0 THEN RMul(Int2Rat(2), Pow2(k - 1))
           ELSE RDiv(Pow2(k + 1), Int2Rat(2))

(* The float a product 2^e * c * sqrt(v) is, when e is an integer and v = 1 *)
SymValue(x) ==
    IF x.e.k = "num" /\ x.e.d = 1 /\ x.c.k = "num" /\ x.v = One
    THEN RMul(Pow2(x.e.n), x.c) ELSE Real

RECURSIVE AscendingTemps(_)
AscendingTemps(n) ==
    IF n = 0 THEN {<<>>}
    ELSE UNION {{Append(t, k) :
                    k \in (IF t = <<>> THEN 1 ELSE t[Len(t)])..Len(ArrheniusTemps)} :
                t \in AscendingTemps(n - 1)}

ArrheniusTable(p, t) ==
    [i \in 1..Len(t) |->
        FitRow(Int2Rat(ArrheniusTemps[t[i]]),
               SymValue(arrhenius(Int2Rat(ArrheniusTemps[t[i]]), p.D0, p.Q)), One)]

ArrheniusTables ==
    UNION {{ArrheniusTable(p, t) : p \in ArrheniusParams, t \in AscendingTemps(n)} :
           n \in 1..MaxRows}

(* Inputs of analyze_dsa.py: tables of (T, D), D in units of 1e-8 m^2/s.   *)
DsaPoint(T, D) == [T |-> T, D |-> D]

(* D at 300..340 K that puts the ratio of the scenario (1e14, 5 nm, 0.1    *)
(* um) with pipe factor 1 at 15, 10, 1, 0.1 and 0.05                       *)
ThresholdRows ==
    <<DsaPoint(Int2Rat(300), Rat(143, 6000)), DsaPoint(Int2Rat(310), Rat(143, 4000)),
      DsaPoint(Int2Rat(320), Rat(143, 400)), DsaPoint(Int2Rat(330), Rat(143, 40)),
      DsaPoint(Int2Rat(340), Rat(143, 20))>>

DsaTables ==
    {ThresholdRows,
     <<DsaPoint(Int2Rat(300), Rat(1, 1000)), DsaPoint(Int2Rat(450), Rat(16, 1000))>>,
     <<DsaPoint(Int2Rat(450), Rat(16, 1000)), DsaPoint(Int2Rat(300), Rat(1, 1000))>>,
     <<DsaPoint(Int2Rat(300), Rat(2, 1000)), DsaPoint(Int2Rat(310), Rat(1, 1000))>>,
     <<DsaPoint(Int2Rat(300), NaN), DsaPoint(Int2Rat(310), Rat(1, 1000)),
       DsaPoint(NaN, Rat(1, 1000)), DsaPoint(Int2Rat(320), Rat(2, 1000))>>,
     <<DsaPoint(Int2Rat(300), Rat(1, 1000))>>,
     <<DsaPoint(Int2Rat(300), NaN), DsaPoint(Int2Rat(310), Rat(1, 1000))>>,
     <<DsaPoint(Int2Rat(300), NaN)>>,
     <<>>}

DsaInputs ==
    {DsaFile({"T", "D"}, rows) : rows \in DsaTables}
    \cup {DsaFile(cols, ThresholdRows) :
             cols \in {{"T", "D_bulk"}, {"T", "D_interdiff"}, {"T", "D", "D_bulk"},
                       {"T", "D_err"}, {"D"}}}
    \cup {NoDsaFile}

PipeFactors == {f_pipe, Zero}

(* The scenario parameters of constants.py, and a choice of finer ones:    *)
(* rho_m_values = [1e12, 1.2e12], L_capture = [1, 1.4] nm and              *)
(* L_travel = [0.1, 0.12] um                                               *)
DefaultConfig ==
    [rho_m_values |-> rho_m_values, L_capture |-> L_capture, L_travel |-> L_travel]
FineConfig ==
    [rho_m_values |-> <<Int2Rat(1), Rat(12, 10)>>,
     L_capture |-> <<Rat(1, 100), Rat(14, 1000)>>,
     L_travel |-> <<Int2Rat(1), Rat(12, 10)>>]
DsaConfigs == {DefaultConfig, FineConfig}

Reverse(seq) == [i \in 1..Len(seq) |-> seq[Len(seq) + 1 - i]]
(* the elements at the odd positions, then those at the even positions *)
Interleave(seq) ==
    [i \in 1..Len(seq) |->
        IF 2 * i - 1 <= Len(seq) THEN seq[2 * i - 1]
        ELSE seq[2 * (i - (Len(seq) + 1) \div 2)]]
Orders(config) ==
    {LoopOrder(config), Reverse(LoopOrder(config)), Interleave(LoopOrder(config))}

----------------------------------------------------------------------------
(* State. *)

VARIABLES
    pc,             \* which script has run: "idle", "analyze", "analyzed", ...
    start_fraction, \* analyze_all_temperatures: its start_fraction argument
    t_idx,          \* analyze_all_temperatures: position of the loop in T_md
    results,        \* analyze_all_temperatures: the rows appended so far
    cur,            \* analyze_all_temperatures: the iteration just executed
    printed,        \* the lines printed by analyze_msd.py
    disk,           \* the CSV files under outputs/analysis
    fit,            \* fit_arrhenius.py: the call of main and its outcome
    quality,        \* check_msd_quality.py / analyze_interface_msd.py: outcome
    dsa,            \* analyze_dsa.py: its run, the dict results and the files
    run             \* run_all.py: the scripts launched and the files they left

vars == <<pc, start_fraction, t_idx, results, cur, printed, disk, fit, quality, dsa,
         run>>

NoCur == [T |-> 0, file |-> Missing, msd_data |-> NoTable(""),
          Mg |-> NotRun, Al |-> NotRun, appended |-> FALSE]
NoFit == [called |-> FALSE, input |-> "", species |-> "", r2_threshold |-> Zero,
          extrapolate |-> FALSE, result |-> Raised("", <<>>), df_extrap |-> <<>>]
NoQuality == [script |-> "", file |-> Missing, start_fraction |-> Zero,
              out |-> [error |-> "", schema |-> "", crashed |-> FALSE,
                       Mg |-> NotRun, Al |-> NotRun]]

(* analyze_dsa.py before it is run, for the scenario parameters config and *)
(* the order in which the scenarios are evaluated                          *)
NoDsa(config, order) ==
    [config |-> config, order |-> order, called |-> FALSE, input |-> NoDsaFile,
     pipe_factor |-> Zero, error |-> "", df_input |-> <<>>,
     f_D_bulk |-> [error |-> "", points |-> <<>>], todo |-> <<>>,
     results |-> <<>>, keys |-> <<>>, save_idx |-> 0, regime |-> <<>>,
     reported |-> {}, files |-> <<>>]

(* run_all.py before it is run *)
NoRun == [files |-> <<>>, answer |-> "", launched |-> <<>>, failed |-> {},
          fit_input |-> "", dsa_input |-> "", swept |-> ""]

Init ==
    /\ pc = "idle"
    /\ start_fraction = Zero
    /\ t_idx = 1
    /\ results = <<>>
    /\ cur = NoCur
    /\ printed = {}
    /\ disk = [p \in CsvPaths |-> Absent]
    /\ fit = NoFit
    /\ quality = NoQuality
    /\ dsa = NoDsa(DefaultConfig, LoopOrder(DefaultConfig))
    /\ run = NoRun

----------------------------------------------------------------------------
(* Actions. *)

(* analyze_all_temperatures(start_fraction=f) is entered *)
StartAnalyze ==
    /\ pc = "idle"
    /\ \E f \in StartFractions : start_fraction' = f
    /\ pc' = "analyze"
    /\ UNCHANGED <<run, t_idx, results, cur, printed, disk, fit, quality, dsa>>

(* One iteration of its loop, on the file found for T_md[t_idx] *)
AnalyzeTemperature ==
    /\ pc = "analyze"
    /\ t_idx <= Len(T_md)
    /\ \E file \in BulkFiles :
        \E one \in {AnalyzeOne(T_md[t_idx], file, start_fraction)} :
            /\ results' = IF one.appended THEN Append(results, one.row) ELSE results
            /\ printed' = printed \cup one.printed
            /\ cur' = [T |-> T_md[t_idx], file |-> file, msd_data |-> one.msd_data,
                       Mg |-> one.Mg, Al |-> one.Al, appended |-> one.appended]
    /\ t_idx' = t_idx + 1
    /\ UNCHANGED <<run, pc, start_fraction, disk, fit, quality, dsa>>

(* The loop is over: the table is returned and, if it has rows, saved *)
FinishAnalyze ==
    /\ pc = "analyze"
    /\ t_idx > Len(T_md)
    /\ pc' = "analyzed"
    /\ cur' = NoCur
    /\ disk' = IF Len(results) > 0
               THEN [disk EXCEPT !["diffusivity_bulk.csv"] = to_csv(results)]
               ELSE disk
    /\ UNCHANGED <<run, start_fraction, t_idx, results, printed, fit, quality, dsa>>

(* fit_arrhenius.py --input input --species species --r2-threshold thr,   *)
(* with or without --extrapolate; df_extrap is the table it then saves.    *)
FitMain ==
    /\ pc \in {"idle", "analyzed"}
    /\ \E input \in CsvPaths, species \in FitSpecies, thr \in R2Thresholds,
          extrapolate \in BOOLEAN :
        \E result \in main_fit(disk[input], species, thr) :
          fit' = [called |-> TRUE, input |-> input, species |-> species,
                  r2_threshold |-> thr, extrapolate |-> extrapolate,
                  result |-> result,
                  df_extrap |-> IF extrapolate /\ result.raised = ""
                                THEN extrapolate_to_dsa_temps(result.D0, result.Q)
                                ELSE <<>>]
    /\ pc' = "fitted"
    /\ UNCHANGED <<run, start_fraction, t_idx, results, cur, printed, disk, quality, dsa>>

(* check_msd_quality.py --start-fraction f on one file *)
CheckMsdQuality ==
    /\ pc = "idle"
    /\ \E file \in QualityFiles, f \in StartFractions :
          quality' = [script |-> "check_msd_quality", file |-> file,
                      start_fraction |-> f, out |-> check_msd_file(file)]
    /\ pc' = "checked"
    /\ UNCHANGED <<run, start_fraction, t_idx, results, cur, printed, disk, fit, dsa>>

(* analyze_interface_msd.py on one file *)
AnalyzeInterfaceMsd ==
    /\ pc = "idle"
    /\ \E file \in QualityFiles :
          /\ file.ncols <= TwoSpeciesCols
          /\ quality' = [script |-> "analyze_interface_msd", file |-> file,
                         start_fraction |-> DefaultStartFraction,
                         out |-> analyze_interface_msd(file)]
    /\ pc' = "checked"
    /\ UNCHANGED <<run, start_fraction, t_idx, results, cur, printed, disk, fit, dsa>>

Next ==
    \/ StartAnalyze
    \/ AnalyzeTemperature
    \/ FinishAnalyze
    \/ FitMain
    \/ CheckMsdQuality
    \/ AnalyzeInterfaceMsd

Spec == Init /\ [][Next]_vars

----------------------------------------------------------------------------
(* fit_arrhenius.py run on a table given with --input. *)

InitFit ==
    /\ pc = "idle"
    /\ start_fraction = Zero
    /\ t_idx = 1
    /\ results = <<>>
    /\ cur = NoCur
    /\ printed = {}
    /\ \E table \in FitTables :
          disk = [p \in CsvPaths |->
                    IF p = "interface_diffusivity_1k.csv" THEN to_csv(table)
                    ELSE Absent]
    /\ fit = NoFit
    /\ quality = NoQuality
    /\ dsa = NoDsa(DefaultConfig, LoopOrder(DefaultConfig))
    /\ run = NoRun

NextFit == FitMain

SpecFit == InitFit /\ [][NextFit]_vars

----------------------------------------------------------------------------
(* analyze_dsa.py run on a table given with --input. *)

DsaLoaded(file, pipe_factor, norm, f) ==
    [dsa EXCEPT !.called = TRUE, !.input = file, !.pipe_factor = pipe_factor,
                !.error = IF ~file.exists THEN "FileNotFoundError"
                          ELSE IF norm.error # "" THEN norm.error ELSE f.error,
                !.df_input = norm.df,
                !.f_D_bulk = IF file.exists /\ norm.error = "" THEN f ELSE @,
                !.todo = IF file.exists /\ norm.error = "" /\ f.error = ""
                         THEN dsa.order ELSE <<>>]

(* main() up to the loops of analyze_dsa_condition: the file is read and   *)
(* normalized and the interpolant is built                                 *)
DsaLoad ==
    /\ pc = "idle"
    /\ \E file \in DsaInputs, pipe_factor \in PipeFactors :
        \E norm \in {normalize_diffusivity_df(file)} :
          /\ dsa' = DsaLoaded(file, pipe_factor, norm, interp1d(norm.df))
          /\ pc' = IF dsa'.error = "" THEN "dsa_sweep" ELSE "dsa_failed"
    /\ UNCHANGED <<run, start_fraction, t_idx, results, cur, printed, disk, fit, quality>>

(* One pass of the body of the loops over rho_m, L_c and L_t *)
DsaScenario ==
    /\ pc = "dsa_sweep"
    /\ dsa.todo # <<>>
    /\ \E key \in {Head(dsa.todo)} :
          dsa' = [dsa EXCEPT
                    !.todo = Tail(@),
                    !.keys = IF key \in DOMAIN dsa.results THEN @ ELSE Append(@, key),
                    !.results = setitem(@, key,
                                        scenario_data(dsa.f_D_bulk, dsa.pipe_factor, key))]
    /\ UNCHANGED <<run, pc, start_fraction, t_idx, results, cur, printed, disk, fit, quality>>

(* analyze_dsa_condition returns results *)
DsaReturn ==
    /\ pc = "dsa_sweep"
    /\ dsa.todo = <<>>
    /\ pc' = "dsa_save"
    /\ dsa' = [dsa EXCEPT !.save_idx = 1]
    /\ UNCHANGED <<run, start_fraction, t_idx, results, cur, printed, disk, fit, quality>>

Saved(key, df, regime, name) ==
    [dsa EXCEPT
        !.save_idx = @ + 1,
        !.regime = setitem(@, key, regime),
        !.reported = IF \E i \in 1..Len(df) : regime[i] THEN @ \cup {key} ELSE @,
        !.files = setitem(@, name,
                          [key |-> key, content |-> df,
                           writes |-> IF name \in DOMAIN dsa.files
                                      THEN dsa.files[name].writes + 1 ELSE 1])]

(* One pass of the loop over results.items(): the regime is identified and *)
(* the frame is saved                                                      *)
DsaSave ==
    /\ pc = "dsa_save"
    /\ dsa.save_idx <= Len(dsa.keys)
    /\ \E key \in {dsa.keys[dsa.save_idx]} :
        \E df \in {dsa.results[key]} :
          dsa' = Saved(key, df, in_regime(df), filename(key))
    /\ UNCHANGED <<run, pc, start_fraction, t_idx, results, cur, printed, disk, fit, quality>>

(* The loop is over: the comparison is plotted and main returns *)
DsaFinish ==
    /\ pc = "dsa_save"
    /\ dsa.save_idx > Len(dsa.keys)
    /\ pc' = "dsa_done"
    /\ UNCHANGED <<run, start_fraction, t_idx, results, cur, printed, disk, fit, quality, dsa>>

NextDsa ==
    \/ DsaLoad
    \/ DsaScenario
    \/ DsaReturn
    \/ DsaSave
    \/ DsaFinish

InitDsaWith(config, order) ==
    /\ pc = "idle"
    /\ start_fraction = Zero
    /\ t_idx = 1
    /\ results = <<>>
    /\ cur = NoCur
    /\ printed = {}
    /\ disk = [p \in CsvPaths |-> Absent]
    /\ fit = NoFit
    /\ quality = NoQuality
    /\ dsa = NoDsa(config, order)
    /\ run = NoRun

InitDsa == \E config \in DsaConfigs : InitDsaWith(config, LoopOrder(config))

SpecDsa == InitDsa /\ [][NextDsa]_vars

(* The same run with the scenarios evaluated in another order *)
InitDsaOrders ==
    \E config \in DsaConfigs : \E order \in Orders(config) : InitDsaWith(config, order)

SpecDsaOrders == InitDsaOrders /\ [][NextDsa]_vars

----------------------------------------------------------------------------
(* fit_arrhenius.py run on a table of exact Arrhenius diffusivities. *)

InitRoundTrip ==
    /\ pc = "idle"
    /\ start_fraction = Zero
    /\ t_idx = 1
    /\ results = <<>>
    /\ cur = NoCur
    /\ printed = {}
    /\ \E table \in ArrheniusTables :
          disk = [p \in CsvPaths |->
                    IF p = "interface_diffusivity_1k.csv" THEN to_csv(table)
                    ELSE Absent]
    /\ fit = NoFit
    /\ quality = NoQuality
    /\ dsa = NoDsa(DefaultConfig, LoopOrder(DefaultConfig))
    /\ run = NoRun

NextRoundTrip == FitMain

SpecRoundTrip == InitRoundTrip /\ [][NextRoundTrip]_vars

----------------------------------------------------------------------------
(* Properties of analyze_all_temperatures. *)

(* The row appended by the iteration just executed *)
LastRow == results[Len(results)]

(* What the estimator returned for a species in the iteration just executed, *)
(* and the columns of the appended row that hold it                          *)
Returned(species) == IF species = "Mg" THEN cur.Mg ELSE cur.Al
D_of(row, species) == IF species = "Mg" THEN row.D_Mg ELSE row.D_Al
R2_of(row, species) == IF species = "Mg" THEN row.R2_Mg ELSE row.R2_Al
valid_of(row, species) == IF species = "Mg" THEN row.valid_Mg ELSE row.valid_Al

SpeciesNames == {Species[i] : i \in 1..Len(Species)}

C3_AndGate ==
    \A i \in 1..Len(results) :
        /\ results[i].valid_interdiff <=> (results[i].valid_Mg /\ results[i].valid_Al)
        /\ ~(results[i].valid_Mg /\ results[i].valid_Al) =>
              (results[i].D_interdiff = NaN /\ ~results[i].valid_interdiff)

(* A row with a valid Mg and an Al of positive D but low r^2 *)
C3_Witness ==
    \E i \in 1..Len(results) :
        /\ results[i].valid_Mg /\ ~results[i].valid_Al
        /\ IsNum(results[i].D_Al)
        /\ results[i].D_interdiff = NaN /\ ~results[i].valid_interdiff

(* C4: in every row with both species valid, D_interdiff is                *)
(* x_Mg * D_Al + x_Al * D_Mg, with x_Mg = Mg_atomic_percent / 100 = 0.0552 *)
(* and x_Mg + x_Al = 1.                                                    *)
C4_Darken ==
    /\ x_Mg = Rat(552, 10000)
    /\ RAdd(x_Mg, x_Al) = One
    /\ \A i \in 1..Len(results) :
          (results[i].valid_Mg /\ results[i].valid_Al) =>
              /\ IsNum(results[i].D_interdiff)
              /\ RMul(results[i].D_interdiff, Int2Rat(10000))
                    = RAdd(RMul(Int2Rat(552), results[i].D_Al),
                           RMul(Int2Rat(10000 - 552), results[i].D_Mg))

(* A row with both species valid and different diffusivities *)
C4_Witness ==
    \E i \in 1..Len(results) :
        /\ results[i].valid_Mg /\ results[i].valid_Al
        /\ results[i].D_Mg = Int2Rat(2) /\ results[i].D_Al = Rat(1, 2)
        /\ results[i].D_interdiff = Rat(2 * 9448 * 2 + 552, 2 * 10000)

----------------------------------------------------------------------------
(* Properties of the estimators and the loaders. *)

(* The samples an estimator keeps of n after discarding the fraction f *)
Kept(n, f) == n - ((n * f.n) \div f.d)

(* The quality scripts ran their estimators on the file *)
QualityRan == quality.script # "" /\ quality.out.error = ""

(* The column a quality script read for a species *)
QualityColumn(sp) ==
    LET named == quality.script = "analyze_interface_msd"
    IN  IF sp = "Mg"
        THEN IF named /\ quality.file.ncols < 4 THEN NaNColumn(quality.file.n)
             ELSE Column(quality.file.a, quality.file.n)
        ELSE IF named /\ quality.file.ncols < 8 THEN NaNColumn(quality.file.n)
             ELSE Column(quality.file.b, quality.file.n)

QualityOut(sp) == IF sp = "Mg" THEN quality.out.Mg ELSE quality.out.Al

PipelineColumn(sp) ==
    IF sp = "Mg" THEN cur.msd_data.msd_Mg_total ELSE cur.msd_data.msd_Al_total

(* C5: every estimator (compute_diffusivity, analyze_component, the loop   *)
(* of analyze_interface_msd.py), called on a numeric series of N samples   *)
(* with discard fraction f, returns the insufficient-data sentinel when    *)
(* fewer than 10 samples remain after the first floor(N * f) are dropped.  *)
C5_TenSamples ==
    /\ \A sp \in SpeciesNames :
          (/\ cur.msd_data.loaded
           /\ Returned(sp) # NotRun
           /\ PipelineColumn(sp).dtype = "float64"
           /\ Kept(cur.msd_data.n, start_fraction) < 10)
          => Returned(sp) = Insufficient
    /\ \A sp \in SpeciesNames :
          (/\ QualityRan
           /\ QualityOut(sp) # NotRun
           /\ QualityColumn(sp).dtype = "float64"
           /\ Kept(quality.file.n, DefaultStartFraction) < 10)
          => QualityOut(sp) = Insufficient

(* compute_diffusivity and the interface loop met a series that keeps      *)
(* fewer than 10 samples and returned the sentinel                         *)
C5_Witness ==
    \/ /\ cur.msd_data.loaded /\ cur.msd_data.n = 10
       /\ start_fraction = Rat(1, 10) /\ cur.file.a = "lin1"
       /\ cur.Mg = Insufficient
    \/ /\ quality.script = "analyze_interface_msd" /\ QualityRan
       /\ quality.file.n = 12 /\ quality.file.a = "lin1"
       /\ quality.out.Mg = Insufficient

(* C6: compute_diffusivity and analyze_component, called on a column whose *)
(* every value is NaN, return the sentinel (None, None, None) and raise    *)
(* nothing, whatever the number of samples and the discard fraction.       *)
C6_AllNaN ==
    /\ \A sp \in SpeciesNames :
          (/\ cur.msd_data.loaded
           /\ Returned(sp) # NotRun
           /\ \A k \in 1..cur.msd_data.n : PipelineColumn(sp).vals[k] = NaN)
          => Returned(sp) = Estimate("", None, None, None)
    /\ \A sp \in SpeciesNames :
          (/\ quality.script = "check_msd_quality" /\ QualityRan
           /\ QualityOut(sp) # NotRun
           /\ \A k \in 1..quality.file.n : QualityColumn(sp).vals[k] = NaN)
          => QualityOut(sp) = Estimate("", None, None, None)

(* An all-NaN Mg column of 12 samples, none discarded: only the NaN test   *)
(* keeps the regression from running                                       *)
C6_Witness ==
    /\ cur.msd_data.loaded /\ cur.msd_data.n = 12 /\ start_fraction = Zero
    /\ \A k \in 1..12 : cur.msd_data.msd_Mg_total.vals[k] = NaN
    /\ cur.Mg = Insufficient
    /\ cur.appended /\ LastRow.D_Mg = NaN /\ LastRow.valid_Al

(* The file an iteration or a quality script was given holds rows *)
HoldsRows(file) == file.exists /\ file.n > 0

(* C7: read_msd_file and load_msd_file read a 5-column file as one species *)
(* (no Al data), a file of 9 or more columns as two species from its first *)
(* 9 columns, and fail on every other column count with a ValueError,      *)
(* giving no table.                                                        *)
C7_Loader ==
    /\ (cur.T # 0 /\ HoldsRows(cur.file)) =>
          IF cur.file.ncols = 5
          THEN /\ cur.msd_data.loaded
               /\ cur.msd_data.msd_Mg_total = Column(cur.file.a, cur.file.n)
               /\ cur.msd_data.msd_Al_total = NaNColumn(cur.file.n)
          ELSE IF cur.file.ncols >= 9
          THEN /\ cur.msd_data.loaded
               /\ cur.msd_data.msd_Mg_total = Column(cur.file.a, cur.file.n)
               /\ cur.msd_data.msd_Al_total = Column(cur.file.b, cur.file.n)
               /\ cur.msd_data = read_msd_file([cur.file EXCEPT !.ncols = 9])
          ELSE /\ ~cur.msd_data.loaded
               /\ cur.msd_data.error = "ValueError"
               /\ cur.msd_data.n = 0
               /\ ~cur.appended
    /\ (quality.script = "check_msd_quality" /\ HoldsRows(quality.file)) =>
          IF quality.file.ncols = 5
          THEN quality.out.error = "" /\ quality.out.schema = "bulk"
               /\ quality.out.Al = NotRun
          ELSE IF quality.file.ncols >= 9
          THEN quality.out.error = "" /\ quality.out.schema = "interface"
          ELSE /\ quality.out.error = "ValueError"
               /\ quality.out.Mg = NotRun /\ quality.out.Al = NotRun

(* A file of more than 9 columns was read as two species, Al from its 9th  *)
(* column, after a 7-column file was refused                               *)
C7_Witness ==
    /\ cur.file.ncols > 9 /\ cur.msd_data.loaded /\ cur.appended
    /\ LastRow.D_Mg = Int2Rat(2) /\ LastRow.D_Al = Rat(1, 2)
    /\ [T |-> T_md[1], species |-> "", msg |-> "Error reading"] \in printed

(* C8: a cell of an MSD column that is missing or no number raises nothing *)
(* and is carried as NaN, and what the estimator returns for one species   *)
(* does not depend on the cells of the other species' column.              *)
C8_CellsIndependent ==
    (cur.msd_data.loaded /\ cur.file.ncols >= 9) =>
        /\ cur.Mg.exc = "" /\ cur.Al.exc = ""
        /\ cur.appended
        /\ cur.Mg = compute_diffusivity(
                        read_msd_file([cur.file EXCEPT !.b = "lin1"]),
                        "Mg", start_fraction)
        /\ cur.Al = compute_diffusivity(
                        read_msd_file([cur.file EXCEPT !.a = "lin1"]),
                        "Al", start_fraction)

(* A NaN cell in the Al column: the row is written, D_Al is NaN and Mg is  *)
(* fitted as if the Al column were clean                                   *)
C8_Witness ==
    /\ cur.msd_data.loaded /\ cur.file.b = "nan_one" /\ cur.appended
    /\ LastRow.D_Al = NaN /\ ~LastRow.valid_Al
    /\ LastRow.valid_Mg /\ LastRow.D_Mg = One

----------------------------------------------------------------------------
(* Properties of fit_arrhenius.py. *)

(* main() read a table and called fit_arrhenius on it *)
FitRan == fit.called /\ disk[fit.input].exists

(* C2: when fit_arrhenius.py is run for one species on the table written   *)
(* by analyze_all_temperatures, no row whose r^2 for the species is below  *)
(* 0.95 is among the rows regressed on, and a table all of whose rows are  *)
(* such rows makes the fit raise the insufficient-data ValueError.         *)
C2_LowR2Excluded ==
    (FitRan /\ fit.input = "diffusivity_bulk.csv" /\ fit.species \in SpeciesNames) =>
        /\ fit.result.raised # "ValueError" =>
              \A i \in 1..Len(fit.result.df_valid) :
                  ~FLt(R2_of(fit.result.df_valid[i], fit.species), Rat(95, 100))
        /\ (\A i \in 1..Len(results) :
                FLt(R2_of(results[i], fit.species), Rat(95, 100)))
              => fit.result.raised = "ValueError"

(* The fit for Mg, with the default threshold, of a table of three rows    *)
(* whose Mg fits all have r^2 = 121/169                                    *)
C2_Witness ==
    /\ FitRan /\ fit.input = "diffusivity_bulk.csv" /\ fit.species = "Mg"
    /\ fit.r2_threshold = Zero
    /\ Len(results) = 3
    /\ \A i \in 1..3 : results[i].R2_Mg = Rat(121, 169) /\ ~results[i].valid_Mg

(* C9: fit_arrhenius raises the insufficient-data ValueError when fewer    *)
(* than 3 rows remain after the rows without T, D or (given a quality      *)
(* column) r^2 are dropped, and returns parameters when 3 or more remain.  *)
C9_ThreeRows ==
    FitRan =>
        /\ \A i \in 1..Len(fit.result.df_valid) :
              /\ fit.result.df_valid[i].T # NaN
              /\ (fit.species = "interdiff" => fit.result.df_valid[i].D_interdiff # NaN)
              /\ (fit.species \in SpeciesNames =>
                    /\ D_of(fit.result.df_valid[i], fit.species) # NaN
                    /\ R2_of(fit.result.df_valid[i], fit.species) # NaN)
        /\ Len(fit.result.df_valid) < 3 => fit.result.raised = "ValueError"
        /\ Len(fit.result.df_valid) >= 3 => fit.result.raised = ""

(* Fits of tables that keep two rows and that keep three rows *)
C9_Witness ==
    /\ FitRan
    /\ \/ Len(fit.result.df_valid) = 2 /\ fit.result.raised = "ValueError"
          /\ Len(disk[fit.input].rows) = 4
       \/ Len(fit.result.df_valid) = 3 /\ fit.result.raised = ""
          /\ fit.result.slope.k = "num"

(* The fit returned a line whose coefficients the arithmetic tracks *)
FitTracked == FitRan /\ fit.result.raised = "" /\ fit.result.slope.k = "num"

FitD(i) ==
    IF fit.species = "interdiff" THEN fit.result.df_valid[i].D_interdiff
    ELSE D_of(fit.result.df_valid[i], fit.species)

(* Residual of row i of the rows regressed on: ln D - slope / T - intercept *)
Residual(i) ==
    RSub(RSub(np_log(FitD(i)),
              RDiv(fit.result.slope, fit.result.df_valid[i].T)),
         fit.result.intercept)

(* 1 / T of row i in units of 1 / 21000, an integer for T in 500, 600, 700 *)
InvT(i) == Int2Rat(21000 \div fit.result.df_valid[i].T.n)

RECURSIVE RSum(_, _)
RSum(F(_), n) == IF n = 0 THEN Zero ELSE RAdd(RSum(F, n - 1), F(n))

SqResidual(i) == RMul(Residual(i), Residual(i))
WeightedResidual(i) == RMul(InvT(i), Residual(i))
SqInvT(i) == RMul(InvT(i), InvT(i))

(* The value squared of a product 2^0 * c * sqrt(v) *)
SymSquared(x) == RMul(RMul(x.c, x.c), x.v)

(* C10: the line fitted is the least-squares line through (1 / T, ln D),   *)
(* slope_err and intercept_err are the square roots of the diagonal of its *)
(* covariance matrix, and Q = -slope * R, D0 = exp(intercept),             *)
(* Q_err = slope_err * R, D0_err = D0 * intercept_err, Q_eV = Q / 96485.   *)
C10_Parameters ==
    FitTracked =>
        LET res == fit.result
            n == Len(res.df_valid)
            Det == RSub(RMul(Int2Rat(n), RSum(SqInvT, n)),
                        RMul(RSum(InvT, n), RSum(InvT, n)))
            s2 == RDiv(RSum(SqResidual, n), Int2Rat(n - 2))
            gas == Rat(8314, 1000)
        IN  /\ RSum(Residual, n) = Zero
            /\ RSum(WeightedResidual, n) = Zero
            /\ res.slope_err.e = Zero /\ res.intercept_err.e = Zero
            /\ SymSquared([res.slope_err EXCEPT !.c = RDiv(@, Int2Rat(21000))])
                  = RDiv(RMul(s2, Int2Rat(n)), Det)
            /\ SymSquared(res.intercept_err) = RDiv(RMul(s2, RSum(SqInvT, n)), Det)
            /\ res.Q = RNeg(RMul(res.slope, gas))
            /\ res.D0 = [e |-> res.intercept, c |-> One, v |-> One]
            /\ res.Q_eV = RDiv(res.Q, Int2Rat(96485))
            /\ res.pcov.Q.sq_of = [res.slope_err EXCEPT !.c = RMul(@, gas)]
            /\ res.pcov.D0.sq_of =
                  [e |-> res.intercept, c |-> res.intercept_err.c,
                   v |-> res.intercept_err.v]

(* A fit through four points that do not lie on a line *)
C10_Witness ==
    /\ FitTracked
    /\ Len(fit.result.df_valid) = 4
    /\ fit.result.slope.n # 0
    /\ fit.result.slope_err.v.n # 0
    /\ fit.result.Q.n # 0 /\ fit.result.Q_eV.n # 0

(* C11: whenever at least 3 usable rows are supplied, fit_arrhenius       *)
(* returns, and the parameters popt it returns are the (D0, Q) of the      *)
(* linear fit; no failure to converge is propagated.                       *)
C11_LinearFallback ==
    (FitRan /\ Len(fit.result.df_valid) >= 3) =>
        /\ fit.result.raised = ""
        /\ fit.result.popt = <<[e |-> fit.result.intercept, c |-> One, v |-> One],
                               XMul(RNeg(One), XMul(fit.result.slope, Rat(8314, 1000)))>>

(* A fit of three usable rows that returned the linear parameters *)
C11_Witness ==
    /\ FitTracked
    /\ Len(fit.result.df_valid) = 3
    /\ fit.result.popt = <<fit.result.D0, fit.result.Q>>
    /\ fit.result.Q.n # 0

(* The table the fit read *)
FitInput == read_csv(disk[fit.input])

(* The table the fit read holds, at 3 or more distinct temperatures, the   *)
(* diffusivities D0 * exp(-Q / (R * T)) of the parameters p                *)
GeneratedFrom(p) ==
    /\ FitRan
    /\ Cardinality({FitInput[i].T : i \in 1..Len(FitInput)}) >= 3
    /\ \A i \in 1..Len(FitInput) :
          /\ FitInput[i].T.k = "num"
          /\ FitD(i) = SymValue([e |-> RSub(p.D0.e, RDiv(p.Q, RMul(Rat(8314, 1000),
                                                                  FitInput[i].T))),
                                 c |-> p.D0.c, v |-> One])

(* C12: fitted to diffusivities generated exactly from D0 * exp(-Q/(R*T))  *)
(* at 3 or more distinct temperatures, fit_arrhenius returns that D0 and   *)
(* that Q, with uncertainties (zero in exact arithmetic) that cover the    *)
(* difference, and arrhenius of the fitted parameters gives back each D.   *)
C12_RoundTrip ==
    \A p \in ArrheniusParams :
        GeneratedFrom(p) =>
            /\ fit.result.raised = ""
            /\ fit.result.df_valid = FitInput
            /\ fit.result.D0 = p.D0
            /\ fit.result.Q = p.Q
            /\ fit.result.pcov.Q.sq_of.v = Zero
            /\ fit.result.pcov.D0.sq_of.v = Zero
            /\ \A i \in 1..Len(FitInput) :
                  SymValue(arrhenius(FitInput[i].T, fit.result.D0, fit.result.Q))
                      = FitD(i)

(* A fit of four rows at 500, 600, 700 and 1050 K generated from           *)
(* D0 = 2^35 and Q = 21000 R ln 2                                          *)
C12_Witness ==
    /\ GeneratedFrom([D0 |-> np_exp(Int2Rat(35)), Q |-> RMul(Int2Rat(21000), R)])
    /\ Len(FitInput) = 4
    /\ FitInput[1].D_interdiff = Rat(1, 128)
    /\ FitInput[4].D_interdiff = Int2Rat(32768)
    /\ fit.result.Q = Rat(174594, 1)

(* C13: fit_arrhenius.py --extrapolate saves one row per temperature of    *)
(* T_dsa = 300, 310, ..., 450 K, in that order, each holding only T and    *)
(* D = D0 * exp(-Q / (R * T)) of the fitted D0 and Q, whatever these are:  *)
(* no row is left out or marked.                                           *)
C13_ExtrapolationTotal ==
    (FitRan /\ fit.extrapolate /\ fit.result.raised = "") =>
        /\ Len(fit.df_extrap) = 16
        /\ \A i \in 1..Len(fit.df_extrap) :
              LET row == fit.df_extrap[i]
              IN  /\ DOMAIN row = {"T", "D"}
                  /\ row.T = Int2Rat(300 + 10 * (i - 1))
                  /\ row.D.c = One /\ row.D.v = One
                  /\ fit.result.slope.k = "num" =>
                        RMul(RSub(row.D.e, fit.result.intercept), row.T)
                            = fit.result.slope
                  /\ fit.result.slope.k # "num" => row.D.e = fit.result.slope

(* Extrapolations of a fitted line and of a fit that returned NaN *)
C13_Witness ==
    /\ FitRan /\ fit.extrapolate /\ fit.result.raised = ""
    /\ Len(fit.df_extrap) = 16
    /\ \/ fit.result.slope.k = "num" /\ fit.result.slope.n # 0
       \/ fit.result.slope = NaN

----------------------------------------------------------------------------
(* Properties of analyze_dsa.py. *)

(* The scenarios of the configuration: the product of the three lists *)
Scenarios ==
    {[rho_m |-> dsa.config.rho_m_values[i], L_c |-> dsa.config.L_capture[j],
      L_t |-> dsa.config.L_travel[k]] :
        i \in 1..Len(dsa.config.rho_m_values), j \in 1..Len(dsa.config.L_capture),
        k \in 1..Len(dsa.config.L_travel)}

(* analyze_dsa_condition has returned its dict *)
Swept == pc \in {"dsa_save", "dsa_done"}

C15_SwapChanges ==
    \A key \in DOMAIN dsa.results : \A i \in 1..Len(dsa.results[key]) :
        key.L_c # key.L_t =>
            LET r == dsa.results[key][i]
                swapped_diff == compute_tau_diff(key.L_t, r.D_eff)
                swapped_wait == compute_tau_wait(key.L_c, key.rho_m, b_burgers,
                                                 epsilon_dot)
            IN  /\ swapped_wait # r.tau_wait
                /\ (r.D_eff.k = "num" /\ r.D_eff.n # 0) =>
                      /\ swapped_diff # r.tau_diff
                      /\ RDiv(swapped_diff, r.tau_diff)
                            # RDiv(swapped_wait, r.tau_wait)

(* A table of a scenario with L_c = 1 nm and L_t = 10 um whose D_eff are   *)
(* numbers other than zero                                                 *)
C15_Witness ==
    \E key \in DOMAIN dsa.results :
        /\ key.L_c = Rat(1, 100) /\ key.L_t = Int2Rat(100)
        /\ \A i \in 1..Len(dsa.results[key]) :
              dsa.results[key][i].D_eff.k = "num" /\ dsa.results[key][i].D_eff.n > 0

(* C16: a row is marked DSA-possible exactly when 0.1 < ratio < 10, both   *)
(* bounds excluded: ratio 1 is marked, 0.05, 15, 0.1 and 10 are not.       *)
C16_StrictRegime ==
    \A key \in DOMAIN dsa.regime : \A i \in 1..Len(dsa.regime[key]) :
        LET ratio == dsa.results[key][i].ratio
        IN  dsa.regime[key][i] <=>
                /\ ratio.k = "num"
                /\ 10 * ratio.n > ratio.d
                /\ ratio.n < 10 * ratio.d

(* The regime of a table whose ratios are 15, 10, 1, 0.1 and 0.05 *)
C16_Witness ==
    \E key \in DOMAIN dsa.regime :
        /\ dsa.results[key][1].ratio = Int2Rat(15) /\ ~dsa.regime[key][1]
        /\ dsa.results[key][2].ratio = Int2Rat(10) /\ ~dsa.regime[key][2]
        /\ dsa.results[key][3].ratio = One /\ dsa.regime[key][3]
        /\ dsa.results[key][4].ratio = Rat(1, 10) /\ ~dsa.regime[key][4]
        /\ dsa.results[key][5].ratio = Rat(1, 20) /\ ~dsa.regime[key][5]
        /\ key \in dsa.reported

(* C17: an input that holds fewer than 2 rows with T and D after           *)
(* normalization is rejected before any table is computed: the run ends    *)
(* with an error, and no table is stored or saved.                         *)
C17_RejectsFewPoints ==
    (dsa.called /\ dsa.input.exists /\ Len(dsa.df_input) < 2) =>
        /\ dsa.error # ""
        /\ DOMAIN dsa.results = {}
        /\ DOMAIN dsa.files = {}

(* The run on a file of one row, finished: 27 files of NaN ratios *)
C17_Witness ==
    /\ pc = "dsa_done"
    /\ Len(dsa.df_input) = 1
    /\ dsa.error = ""
    /\ Cardinality(DOMAIN dsa.files) = 27
    /\ \A name \in DOMAIN dsa.files :
          \A i \in 1..Len(dsa.files[name].content) :
              dsa.files[name].content[i].ratio = NaN

(* The table of a scenario as a function of the input table, the pipe      *)
(* factor and the scenario alone                                           *)
TableOf(points, pipe_factor, key) ==
    [i \in 1..16 |->
        DsaRow(Int2Rat(300 + 10 * (i - 1)),
               call_linear([error |-> "", points |-> points],
                           Int2Rat(300 + 10 * (i - 1))),
               pipe_factor, key)]

(* A step stores no table but that function of the scenario it evaluates,  *)
(* and leaves the tables already stored and the interpolant as they are    *)
ScenarioStep ==
    /\ \A key \in DOMAIN dsa.results :
          key \in DOMAIN dsa'.results /\ dsa'.results[key] = dsa.results[key]
    /\ \A key \in DOMAIN dsa'.results \ DOMAIN dsa.results :
          dsa'.results[key] = TableOf(SortByT(dsa.df_input), dsa.pipe_factor, key)
    /\ pc = "dsa_sweep" => dsa'.f_D_bulk = dsa.f_D_bulk

(* C18: in whatever order the scenarios are evaluated, the table stored    *)
(* for a scenario is the same function of the input table, the pipe factor *)
(* and the scenario; evaluating a scenario changes no other table, and the *)
(* interpolant is only read.                                               *)
C18_OrderIndependent == [][ScenarioStep]_vars

(* A sweep in reverse order, half done: the last scenario of the loops is  *)
(* stored and the first is not                                             *)
C18_Witness ==
    /\ pc = "dsa_sweep"
    /\ dsa.order = Reverse(LoopOrder(dsa.config))
    /\ Cardinality(DOMAIN dsa.results) = 13
    /\ dsa.order[1] \in DOMAIN dsa.results
    /\ dsa.order[Len(dsa.order)] \notin DOMAIN dsa.results

(* C19: the dict returned holds exactly one table per element of           *)
(* rho_m_values x L_capture x L_travel, 27 for the values of constants.py, *)
(* under the key (rho_m, L_c, L_t), and every table has one row per        *)
(* temperature of T_dsa, in the order of T_dsa.                            *)
C19_OneTablePerScenario ==
    Swept =>
        /\ DOMAIN dsa.results = Scenarios
        /\ dsa.config = DefaultConfig => Cardinality(DOMAIN dsa.results) = 27
        /\ Len(dsa.keys) = Cardinality(Scenarios)
        /\ \A key \in DOMAIN dsa.results :
              /\ Len(dsa.results[key]) = 16
              /\ \A i \in 1..16 : dsa.results[key][i].T = Int2Rat(300 + 10 * (i - 1))

(* The dict returned for the values of constants.py and a table of two rows *)
C19_Witness ==
    /\ Swept
    /\ dsa.config = DefaultConfig
    /\ Len(dsa.df_input) = 2
    /\ Cardinality(DOMAIN dsa.results) = 27

(* C20: every scenario's table is written once, to a file no other         *)
(* scenario writes to.                                                     *)
C20_WrittenOnce ==
    /\ \A name \in DOMAIN dsa.files : dsa.files[name].writes = 1
    /\ pc = "dsa_done" => Cardinality(DOMAIN dsa.files) = Cardinality(DOMAIN dsa.results)

(* The run for the values of constants.py, finished: 27 files written once *)
C20_Witness ==
    /\ pc = "dsa_done"
    /\ dsa.config = DefaultConfig
    /\ Cardinality(DOMAIN dsa.files) = 27
    /\ \A name \in DOMAIN dsa.files : dsa.files[name].writes = 1

----------------------------------------------------------------------------
(* Properties of the loop of analyze_all_temperatures. *)

(* read_msd_file has a table to return for the file *)
Readable(file) ==
    file.exists /\ file.n > 0 /\ (file.ncols = 5 \/ file.ncols >= 9)

(* The temperatures of the rows of a table, in the order of the rows *)
RowTemps(rows) == [i \in 1..Len(rows) |-> rows[i].T]

(* The temperatures T_md[1..k] in their order in T_md *)
TempsBefore(k) == [i \in 1..k |-> Int2Rat(T_md[i])]

(* s is t with some of its elements left out *)
RECURSIVE IsSubsequence(_, _)
IsSubsequence(s, t) ==
    IF s = <<>> THEN TRUE
    ELSE IF t = <<>> THEN FALSE
    ELSE IF Head(s) = Head(t) THEN IsSubsequence(Tail(s), Tail(t))
    ELSE IsSubsequence(s, Tail(t))

(* One step of the loop while temperatures remain *)
C21_LoopStep ==
    LET T == T_md[t_idx]
        analyzed == /\ Readable(cur'.file)
                    /\ cur'.Mg.exc = "" /\ cur'.Al.exc = ""
    IN  /\ pc' = "analyze" /\ t_idx' = t_idx + 1
        /\ cur'.T = T
        /\ analyzed => /\ Len(results') = Len(results) + 1
                       /\ SubSeq(results', 1, Len(results)) = results
                       /\ results'[Len(results')].T = Int2Rat(T)
        /\ ~analyzed => results' = results
        /\ ~Readable(cur'.file) =>
              [T |-> T, species |-> "", msg |-> "Error reading"] \in printed'
        /\ IsSubsequence(RowTemps(results'), TempsBefore(t_idx))

(* C21: a file that is missing, unreadable or of an unrecognized column    *)
(* count is skipped and the loop goes on to the next temperature of T_md;  *)
(* the loop ends only after the last temperature, and the table holds one  *)
(* row, in T_md order, for exactly the temperatures whose file loaded and  *)
(* was analyzed without error.                                             *)
C21_SkipAndContinue ==
    [][(pc = "analyze") =>
          IF t_idx <= Len(T_md) THEN C21_LoopStep
          ELSE pc' = "analyzed" /\ results' = results /\ t_idx = Len(T_md) + 1]_vars

(* The table returned when the file of 600 K could not be read: a row for  *)
(* 500 K and a row for 700 K                                               *)
C21_Witness ==
    /\ pc = "analyzed"
    /\ RowTemps(results) = <<Int2Rat(500), Int2Rat(700)>>
    /\ [T |-> 600, species |-> "", msg |-> "Error reading"] \in printed
    /\ [T |-> 500, species |-> "", msg |-> "Error reading"] \notin printed

(* The sibling of a species, and the file with the series of a species     *)
(* replaced by a clean line                                                *)
Sibling(sp) == IF sp = "Mg" THEN "Al" ELSE "Mg"
WithClean(file, sp) ==
    IF sp = "Mg" THEN [file EXCEPT !.a = "lin1"] ELSE [file EXCEPT !.b = "lin1"]

(* The four columns of a row that belong to a species *)
ColumnsOf(row, sp) ==
    IF sp = "Mg"
    THEN [D |-> row.D_Mg, D_err2 |-> row.D_Mg_err2, R2 |-> row.R2_Mg,
          valid |-> row.valid_Mg]
    ELSE [D |-> row.D_Al, D_err2 |-> row.D_Al_err2, R2 |-> row.R2_Al,
          valid |-> row.valid_Al]

(* The estimate of a species ended in an exception or in the sentinel *)
Failed(sp) ==
    /\ cur.msd_data.loaded
    /\ Returned(sp) # NotRun
    /\ (Returned(sp).exc # "" \/ Returned(sp) = Insufficient)

(* C22: when the estimate of one species of a temperature raises or        *)
(* returns the insufficient-data sentinel, the row is still appended and   *)
(* the four columns of the other species are those of the same file with   *)
(* a clean series in place of the failing one.                             *)
C22_SiblingUnaffected ==
    \A sp \in SpeciesNames :
        Failed(sp) =>
            /\ cur.appended
            /\ \E clean \in {AnalyzeOne(cur.T, WithClean(cur.file, sp), start_fraction)} :
                  /\ clean.appended
                  /\ ColumnsOf(LastRow, Sibling(sp)) = ColumnsOf(clean.row, Sibling(sp))

(* An all-NaN Mg column next to a clean Al column: the row is appended     *)
(* with the Al columns of the clean fit                                    *)
C22_Witness ==
    /\ Failed("Mg") /\ cur.Mg = Insufficient /\ cur.file.a = "nan_all"
    /\ cur.appended
    /\ LastRow.D_Mg = NaN /\ LastRow.D_Al = One /\ LastRow.valid_Al

----------------------------------------------------------------------------
(* Properties of the estimators on exact data. *)

(* The slopes 2 * d * D of the noise-free series of the model *)
ExactSlopes == {3, 6}

(* The column holds msd = slope * step in every row *)
IsLine(column, slope) ==
    /\ column.dtype = "float64"
    /\ Len(column.vals) > 0
    /\ \A k \in 1..Len(column.vals) : column.vals[k] = Int2Rat(slope * (k - 1))

(* C23: on a noise-free series msd = 2 * d * D * t of which 10 or more     *)
(* samples are kept, an estimator returns D (the slope over 2 * d), the    *)
(* uncertainty 0 (the standard error over 2 * d) and r^2 = 1: d = 3 for    *)
(* compute_diffusivity, d = 1 for analyze_component and the loop of        *)
(* analyze_interface_msd.py.                                               *)
C23_ExactLine ==
    \A slope \in ExactSlopes, sp \in SpeciesNames :
        /\ (/\ cur.msd_data.loaded
            /\ Returned(sp) # NotRun
            /\ IsLine(PipelineColumn(sp), slope)
            /\ Kept(cur.msd_data.n, start_fraction) >= 10)
           => Returned(sp) = Estimate("", Rat(slope, 2 * 3), One, Zero)
        /\ (/\ QualityRan
            /\ QualityOut(sp) # NotRun
            /\ IsLine(QualityColumn(sp), slope)
            /\ Kept(quality.file.n, DefaultStartFraction) >= 10)
           => QualityOut(sp) = Estimate("", Rat(slope, 2 * 1), One, Zero)

(* compute_diffusivity on msd = 12 t + 3 and msd = 3 t, the last 10 of 12  *)
(* samples kept: D = 2 and D = 1/2, r^2 = 1, no uncertainty                *)
C23_Witness ==
    /\ cur.msd_data.loaded /\ cur.msd_data.n = 12 /\ start_fraction = Rat(2, 10)
    /\ cur.file.a = "lin2" /\ IsLine(cur.msd_data.msd_Al_total, 3)
    /\ cur.Mg = Estimate("", Int2Rat(2), One, Zero)
    /\ cur.Al = Estimate("", Rat(1, 2), One, Zero)

----------------------------------------------------------------------------
(* Properties of the discard fraction. *)

(* The fit of the last kept samples of a column of n samples *)
RegressedOn(column, n, kept, two_dim) ==
    FromFit(linregress(SubSeq(StepColumn(n), n - kept + 1, n),
                       SubSeq(column.vals, n - kept + 1, n)), two_dim)

(* The column holds numbers, not all of them NaN *)
Fittable(column) == column.dtype = "float64" /\ ~AllNaN(column.vals)

(* The estimate fitted on the N - floor(N * f) last samples for the *)
(* fraction f given by the caller of analyze_all_temperatures       *)
PipelineFraction ==
    \A sp \in SpeciesNames :
        (/\ cur.msd_data.loaded
         /\ Returned(sp) # NotRun
         /\ Fittable(PipelineColumn(sp))
         /\ Kept(cur.msd_data.n, start_fraction) >= 10)
        => Returned(sp) = RegressedOn(PipelineColumn(sp), cur.msd_data.n,
                                      Kept(cur.msd_data.n, start_fraction), 6)

(* The same for the fraction given with --start-fraction *)
QualityFraction ==
    \A sp \in SpeciesNames :
        (/\ quality.script = "check_msd_quality" /\ QualityRan
         /\ QualityOut(sp) # NotRun
         /\ Fittable(QualityColumn(sp))
         /\ Kept(quality.file.n, quality.start_fraction) >= 10)
        => QualityOut(sp) = RegressedOn(QualityColumn(sp), quality.file.n,
                                        Kept(quality.file.n, quality.start_fraction), 2)

(* C25: the discard fraction f given by the caller is the one applied: an  *)
(* estimate is the fit of the last N - floor(N * f) of the N samples, with *)
(* analyze_all_temperatures(start_fraction=f) and with --start-fraction f  *)
(* of check_msd_quality.py.                                                *)
C25_CallerFraction == PipelineFraction /\ QualityFraction

(* analyze_all_temperatures(start_fraction=0.1) on 12 samples: the fit of  *)
(* the last 11, whose r^2 is 19/20                                         *)
C25_Witness ==
    /\ cur.msd_data.loaded /\ cur.msd_data.n = 12 /\ start_fraction = Rat(1, 10)
    /\ cur.file.a = "edge"
    /\ cur.Mg = RegressedOn(cur.msd_data.msd_Mg_total, 12, 11, 6)
    /\ cur.Mg.r2 = Rat(95, 100)

----------------------------------------------------------------------------
(* Properties of the diffusivities of the table. *)

(* A cell of a diffusivity column is NaN or a number above zero *)
NaNOrPositive(D) == D = NaN \/ (IsNum(D) /\ D.n > 0)

(* fit_arrhenius.py was run on the table analyze_msd.py saved *)
FitOfTable == FitRan /\ fit.input = "diffusivity_bulk.csv"

(* C26: every D_Mg, D_Al and D_interdiff of the table returned by          *)
(* analyze_all_temperatures is NaN or strictly positive, so that the fit   *)
(* run on this table, which drops the NaN rows, takes the logarithm of     *)
(* positive numbers only.                                                  *)
C26_PositiveOrNaN ==
    /\ \A i \in 1..Len(results) :
          /\ NaNOrPositive(results[i].D_Mg)
          /\ NaNOrPositive(results[i].D_Al)
          /\ NaNOrPositive(results[i].D_interdiff)
    /\ FitOfTable =>
          /\ \A i \in 1..Len(fit.result.df_valid) :
                /\ FitD(i) # NaN
                /\ IsFinite(np_log(FitD(i)))
          /\ fit.result.raised # "LinAlgError"

(* The fit for Al of a saved table of three rows, one of which had a       *)
(* negative Mg slope with r^2 = 1 and holds NaN for D_Mg: the logarithm is *)
(* taken of its three D_Al and the fit returns                             *)
C26_Witness ==
    /\ FitOfTable /\ fit.species = "Al"
    /\ Len(results) = 3
    /\ \E i \in 1..3 : results[i].D_Mg = NaN /\ results[i].R2_Mg = One
    /\ Len(fit.result.df_valid) = 3
    /\ fit.result.raised = ""

----------------------------------------------------------------------------
(* Properties of single-species files. *)

(* C27: the row of a 5-column file has D_Al NaN, valid_Al false,           *)
(* D_interdiff NaN and valid_interdiff false whatever the fit of Mg, and a *)
(* table all of whose rows are such rows gives the fit of the              *)
(* interdiffusion coefficient no usable point.                             *)
C27_SingleSpecies ==
    /\ (cur.appended /\ cur.file.ncols = 5) =>
          /\ LastRow.D_Al = NaN /\ ~LastRow.valid_Al
          /\ LastRow.D_interdiff = NaN /\ ~LastRow.valid_interdiff
          /\ LastRow.D_Mg = OrNaN(SpeciesColumns(cur.Mg).D)
    /\ (/\ FitOfTable /\ fit.species = "interdiff"
        /\ \A i \in 1..Len(results) : results[i].D_Al = NaN)
       => /\ fit.result.df_valid = <<>>
          /\ fit.result.raised = "ValueError"

(* The table of three 5-column files with a valid Mg each, given to the    *)
(* fit of the interdiffusion coefficient                                   *)
C27_Witness ==
    /\ FitOfTable /\ fit.species = "interdiff"
    /\ Len(results) = 3
    /\ \A i \in 1..3 : results[i].valid_Mg /\ results[i].D_Al = NaN
                       /\ results[i].R2_Al = NaN
    /\ fit.result.raised = "ValueError"

----------------------------------------------------------------------------
(* Properties of the sweep on diffusivities that are not positive. *)

(* The interpolant gave zero or less for the row *)
NonPositive(r) == IsNum(r.D_bulk) /\ r.D_bulk.n <= 0

(* C28: with a pipe factor above -1, a temperature of the grid at which    *)
(* the interpolated or extrapolated D_bulk is zero or negative is marked   *)
(* DSA-possible in no scenario, and its row raises nothing: the tables of  *)
(* all scenarios are computed in full and the run fails only while its     *)
(* input is loaded.                                                        *)
C28_NonPositiveExcluded ==
    /\ \A key \in DOMAIN dsa.results :
          /\ Len(dsa.results[key]) = Len(T_dsa)
          /\ \A i \in 1..Len(dsa.results[key]) :
                NonPositive(dsa.results[key][i]) =>
                    /\ dsa.results[key][i].ratio # NaN
                    /\ ~FloatLt(Zero, dsa.results[key][i].ratio)
                          \/ dsa.results[key][i].ratio = PosInf
                    /\ key \in DOMAIN dsa.regime => ~dsa.regime[key][i]
    /\ dsa.error # "" => pc = "dsa_failed" /\ DOMAIN dsa.results = {}
    /\ pc = "dsa_done" => /\ DOMAIN dsa.results = Scenarios
                          /\ DOMAIN dsa.regime = Scenarios

(* The finished run on a table that extrapolates to D_bulk = 0 at 320 K    *)
(* and below zero above: a scenario whose ratio is infinite at 320 K and   *)
(* -3.575 at 330 K, neither marked                                         *)
C28_Witness ==
    /\ pc = "dsa_done" /\ dsa.pipe_factor = One
    /\ \E key \in DOMAIN dsa.regime :
          /\ dsa.results[key][3].D_bulk = Zero
          /\ dsa.results[key][3].ratio = PosInf
          /\ dsa.results[key][4].D_bulk = Rat(-1, 1000)
          /\ dsa.results[key][4].ratio = Rat(-3575, 1000)
          /\ \A i \in 3..16 : ~dsa.regime[key][i]

----------------------------------------------------------------------------
(* Properties of the regime on increasing diffusivities. *)

(* D_bulk is positive and does not decrease with T over the rows of a table *)
PositiveNonDecreasing(df) ==
    /\ \A i \in 1..Len(df) : IsNum(df[i].D_bulk) /\ df[i].D_bulk.n > 0
    /\ \A i \in 1..(Len(df) - 1) : RLe(df[i].D_bulk, df[i + 1].D_bulk)

(* The quotient q of two positive numbers shows the first is no more than *)
(* the second                                                             *)
NoMore(q) == q.n <= q.d

(* T_range.min() and T_range.max() of the rows marked by regime *)
Marked(regime) == {i \in 1..Len(regime) : regime[i]}
WindowMin(regime) == CHOOSE i \in Marked(regime) : \A j \in Marked(regime) : i <= j
WindowMax(regime) == CHOOSE i \in Marked(regime) : \A j \in Marked(regime) : j <= i

(* C29: in every scenario whose D_bulk is positive and non-decreasing in T *)
(* over the grid (pipe factor above -1), the ratio is non-increasing in T  *)
(* and the temperatures marked DSA-possible are consecutive: the window    *)
(* printed, from the lowest to the highest of them, holds no temperature   *)
(* of the grid that is not marked.                                         *)
C29_OneWindow ==
    \A key \in DOMAIN dsa.regime :
        PositiveNonDecreasing(dsa.results[key]) =>
            /\ \A i \in 1..(Len(dsa.results[key]) - 1) :
                  /\ IsNum(dsa.results[key][i].ratio)
                  /\ dsa.results[key][i].ratio.n > 0
                  /\ NoMore(RDiv(dsa.results[key][i + 1].ratio,
                                 dsa.results[key][i].ratio))
            /\ key \in dsa.reported =>
                  \A i \in WindowMin(dsa.regime[key])..WindowMax(dsa.regime[key]) :
                      dsa.regime[key][i]

(* A scenario reported with the window 320 - 330 K: rows 3 and 4 of a      *)
(* table of increasing diffusivities, with rows outside it on both sides   *)
C29_Witness ==
    \E key \in dsa.reported :
        /\ PositiveNonDecreasing(dsa.results[key])
        /\ Marked(dsa.regime[key]) = {3, 4}
        /\ ~NoMore(RDiv(dsa.results[key][3].ratio, dsa.results[key][4].ratio))

----------------------------------------------------------------------------
(* run_all.py.  Each script is launched with no argument, so it reads and  *)
(* writes the files its defaults name.  A file is followed by its origin:  *)
(* absent, md (the MSD data of outputs/bulk, or computed from it) or other *)
(* (left in outputs/analysis by anything else).                            *)

msd_files == "outputs/bulk/msd_T*.dat"
msd_output == "outputs/analysis/diffusivity_bulk.csv"
fit_input == "outputs/analysis/interface_diffusivity_1k.csv"
fit_extrapolated == "outputs/analysis/arrhenius_interface_interdiff_extrapolated.csv"
dsa_input == "outputs/analysis/arrhenius_interface_interdiff_extrapolated.csv"
required_file == "outputs/analysis/diffusivity_bulk_extrapolated.csv"

RunPaths == {msd_files, msd_output, fit_input, fit_extrapolated, dsa_input,
             required_file}

exists(files, path) == files[path] # "absent"

(* any(os.path.exists(f) for f in msd_files) or the saved table exists *)
has_data(files) == exists(files, msd_files) \/ exists(files, msd_output)

(* run_script: the script is launched and its exit status is printed; the  *)
(* status is returned and main() drops it.  files is what the script left. *)
run_script(r, script_name, ok, files) ==
    [r EXCEPT !.launched = Append(@, script_name),
              !.failed = IF ok THEN @ ELSE @ \cup {script_name},
              !.files = files]

(* run_bulk_diffusion.py: the simulations that ran wrote MSD files *)
run_bulk_diffusion(files, wrote) ==
    IF wrote THEN [files EXCEPT ![msd_files] = "md"] ELSE files

(* analyze_msd.py: the table is saved when it has rows *)
analyze_msd(files, rows) ==
    IF exists(files, msd_files) /\ rows
    THEN [files EXCEPT ![msd_output] = files[msd_files]] ELSE files

(* fit_arrhenius.py without --extrapolate: the parameters and the plot are *)
(* saved, no extrapolated table is                                         *)
fit_arrhenius_main(files, extrapolate) ==
    IF extrapolate THEN [files EXCEPT ![fit_extrapolated] = files[fit_input]]
    ELSE files

(* Step 1: the bulk system is created *)
RunCreateSystem ==
    /\ pc = "run_step1"
    /\ \E ok \in BOOLEAN :
          run' = run_script(run, "scripts/create_bulk_system.py", ok, run.files)
    /\ pc' = "run_step2"
    /\ UNCHANGED <<start_fraction, t_idx, results, cur, printed, disk, fit, quality, dsa>>

(* Step 2: the length scales are validated *)
RunLengthScales ==
    /\ pc = "run_step2"
    /\ \E ok \in BOOLEAN :
          run' = run_script(run, "scripts/compute_length_scales.py", ok, run.files)
    /\ pc' = "run_step3"
    /\ UNCHANGED <<start_fraction, t_idx, results, cur, printed, disk, fit, quality, dsa>>

(* Step 3: input() asks whether to run the simulations; at the end of the  *)
(* standard input it raises EOFError, which main() does not catch          *)
RunPrompt ==
    /\ pc = "run_step3"
    /\ \E answer \in {"y", "n", "EOFError"} :
          /\ run' = [run EXCEPT !.answer = answer]
          /\ pc' = IF answer = "EOFError" THEN "run_aborted"
                   ELSE IF answer = "y" THEN "run_sims" ELSE "run_step4"
    /\ UNCHANGED <<start_fraction, t_idx, results, cur, printed, disk, fit, quality, dsa>>

RunSimulations ==
    /\ pc = "run_sims"
    /\ \E ok \in BOOLEAN, wrote \in BOOLEAN :
          run' = run_script(run, "scripts/run_bulk_diffusion.py", ok,
                            run_bulk_diffusion(run.files, wrote))
    /\ pc' = "run_step4"
    /\ UNCHANGED <<start_fraction, t_idx, results, cur, printed, disk, fit, quality, dsa>>

(* Step 4: with data, analyze_msd.py is launched, and fit_arrhenius.py     *)
(* after it; without, a warning is printed                                 *)
RunAnalyzeMsd ==
    /\ pc = "run_step4"
    /\ IF has_data(run.files)
       THEN /\ \E ok \in BOOLEAN, rows \in BOOLEAN :
                  run' = run_script(run, "scripts/analyze_msd.py", ok,
                                    IF ok THEN analyze_msd(run.files, rows)
                                    ELSE run.files)
            /\ pc' = "run_fit"
       ELSE /\ run' = run
            /\ pc' = "run_step5"
    /\ UNCHANGED <<start_fraction, t_idx, results, cur, printed, disk, fit, quality, dsa>>

(* fit_arrhenius.py raises FileNotFoundError when its input is missing *)
RunFit ==
    /\ pc = "run_fit"
    /\ \E ok \in BOOLEAN :
          /\ ok => exists(run.files, fit_input)
          /\ run' = [run_script(run, "scripts/fit_arrhenius.py", ok,
                                IF ok THEN fit_arrhenius_main(run.files, FALSE)
                                ELSE run.files)
                       EXCEPT !.fit_input = fit_input]
    /\ pc' = "run_step5"
    /\ UNCHANGED <<start_fraction, t_idx, results, cur, printed, disk, fit, quality, dsa>>

(* Step 5: analyze_dsa.py is launched if required_file exists; it sweeps   *)
(* the table of its --input default, or prints that the file is missing    *)
(* and returns                                                             *)
RunDsa ==
    /\ pc = "run_step5"
    /\ IF exists(run.files, required_file)
       THEN \E ok \in BOOLEAN :
               run' = [run_script(run, "scripts/analyze_dsa.py", ok, run.files)
                         EXCEPT !.dsa_input = dsa_input,
                                !.swept = IF ok /\ exists(run.files, dsa_input)
                                          THEN run.files[dsa_input] ELSE @]
       ELSE run' = run
    /\ pc' = "run_step6"
    /\ UNCHANGED <<start_fraction, t_idx, results, cur, printed, disk, fit, quality, dsa>>

(* Step 6: the plots and the report *)
RunPlots ==
    /\ pc = "run_step6"
    /\ \E ok \in BOOLEAN :
          run' = run_script(run, "scripts/plot_results.py", ok, run.files)
    /\ pc' = "run_report"
    /\ UNCHANGED <<start_fraction, t_idx, results, cur, printed, disk, fit, quality, dsa>>

(* The report, then the message "Workflow completed!" *)
RunReport ==
    /\ pc = "run_report"
    /\ \E ok \in BOOLEAN :
          run' = run_script(run, "scripts/generate_report.py", ok, run.files)
    /\ pc' = "run_done"
    /\ UNCHANGED <<start_fraction, t_idx, results, cur, printed, disk, fit, quality, dsa>>

NextRunAll ==
    \/ RunCreateSystem
    \/ RunLengthScales
    \/ RunPrompt
    \/ RunSimulations
    \/ RunAnalyzeMsd
    \/ RunFit
    \/ RunDsa
    \/ RunPlots
    \/ RunReport

(* The files found by the run: MSD data or none, and any of the tables *)
(* left in outputs/analysis                                            *)
InitialFiles ==
    {files \in [RunPaths -> {"absent", "md", "other"}] :
        /\ files[msd_files] \in {"absent", "md"}
        /\ \A path \in RunPaths \ {msd_files} : files[path] \in {"absent", "other"}}

InitRunAll ==
    /\ pc = "run_step1"
    /\ start_fraction = Zero
    /\ t_idx = 1
    /\ results = <<>>
    /\ cur = NoCur
    /\ printed = {}
    /\ disk = [p \in CsvPaths |-> Absent]
    /\ fit = NoFit
    /\ quality = NoQuality
    /\ dsa = NoDsa(DefaultConfig, LoopOrder(DefaultConfig))
    /\ \E files \in InitialFiles : run = [NoRun EXCEPT !.files = files]

SpecRunAll == InitRunAll /\ [][NextRunAll]_vars

(* main() runs its statements one after the other, each script returns and *)
(* the prompt is answered or closed                                        *)
SpecRunAllLive == SpecRunAll /\ WF_vars(NextRunAll)

----------------------------------------------------------------------------
(* Properties of run_all.py. *)

(* The scripts launched so far *)
Launched == {run.launched[i] : i \in 1..Len(run.launched)}

(* The run has MSD data files when it reaches the analysis *)
MsdDataPresent == pc = "run_step4" /\ exists(run.files, msd_files)

(* C24: each stage reads what the stage before it wrote: fit_arrhenius.py  *)
(* reads the table analyze_msd.py saves, the sweep of analyze_dsa.py is    *)
(* made on a table computed from the MSD data, and a run that has MSD data *)
(* files and no failing step eventually makes that sweep.                  *)
C24_StagesChained ==
    /\ [](run.fit_input # "" => run.fit_input = msd_output)
    /\ [](run.swept # "" => run.swept = "md")
    /\ MsdDataPresent ~> (run.swept = "md" \/ run.failed # {} \/ pc = "run_aborted")

(* A finished run on MSD data in which no script failed: the table was     *)
(* saved, the fit read another file, and no sweep was made                 *)
C24_Witness ==
    /\ pc = "run_done" /\ run.failed = {}
    /\ run.files[msd_files] = "md" /\ run.files[msd_output] = "md"
    /\ "scripts/fit_arrhenius.py" \in Launched
    /\ run.fit_input = fit_input /\ run.files[fit_input] = "other"
    /\ "scripts/analyze_dsa.py" \notin Launched
    /\ run.swept = ""

(* The order in which main() launches the scripts *)
ScriptOrder ==
    <<"scripts/create_bulk_system.py", "scripts/compute_length_scales.py",
      "scripts/run_bulk_diffusion.py", "scripts/analyze_msd.py",
      "scripts/fit_arrhenius.py", "scripts/analyze_dsa.py",
      "scripts/plot_results.py", "scripts/generate_report.py">>

(* The scripts are launched in the fixed order whatever their exit status, *)
(* the fit right after the MSD analysis, the DSA analysis only when its    *)
(* required file exists                                                    *)
OrderKept ==
    /\ IsSubsequence(run.launched, ScriptOrder)
    /\ pc \in {"run_step5", "run_step6", "run_report", "run_done"} =>
          ("scripts/analyze_msd.py" \in Launched
              <=> "scripts/fit_arrhenius.py" \in Launched)
    /\ "scripts/analyze_dsa.py" \in Launched => exists(run.files, required_file)
    /\ "scripts/run_bulk_diffusion.py" \in Launched => run.answer = "y"

(* The steps main() launches unconditionally, the simulations apart *)
AllLaunched ==
    \A i \in 1..Len(ScriptOrder) :
        \/ ScriptOrder[i] \in Launched
        \/ ScriptOrder[i] = "scripts/run_bulk_diffusion.py" /\ run.answer # "y"
        \/ ScriptOrder[i] = "scripts/analyze_dsa.py" /\ ~exists(run.files, required_file)

(* C30: a run never aborts: whichever scripts exit with failure, the       *)
(* others are launched in the fixed order (the simulations on request, the *)
(* fit even after a failed MSD analysis, the DSA analysis only if its      *)
(* required file exists at that moment) and the run always reaches its     *)
(* completion message.                                                     *)
C30_NeverAborts ==
    /\ []OrderKept
    /\ [](pc = "run_done" => AllLaunched)
    /\ <>(pc = "run_done")

(* A finished run in which each of the eight scripts was launched and each *)
(* exited with failure                                                     *)
C30_Witness ==
    /\ pc = "run_done"
    /\ run.launched = ScriptOrder
    /\ run.failed = Launched

============================================================================
